---- MODULE Spec2Model ----
(***************************************************************************)
(* Verification model of the LAMB lambda-calculus engine and its reactors  *)
(* (src/prebiotic-lambda/lamb): the expression arena with its free-list    *)
(* and generation lists, the mark-and-sweep collector and the compaction   *)
(* pass, capture-avoiding substitution, the single-step reducer and its    *)
(* bounded driver, the combinator generator, the grid reactor and the gas  *)
(* reactor.                                                                *)
(*                                                                         *)
(* Expression indices are 0-based as in the C code; the slot of index i is *)
(* slots[i + 1].  A symbol is a record [label, tag]; labels are interned,  *)
(* so in an expression a label handle is modelled by its string, and the   *)
(* table of the interner is moved only by the harness of intern_label.     *)
(***************************************************************************)
EXTENDS Integers, Sequences, FiniteSets, TLC

VARIABLES
    GC,             \* the arena: slots, dead (free-list), gens[2], gen_cur
    global_counter, \* the static counter of symbol_fresh
    arg_order,      \* the build's order of evaluating call arguments
    bindings,       \* the REPL's bindings table
    active_grid,    \* the grid reactor's grid (cells = <<>> when NULL)
    gas_pool,       \* the gas reactor's pool
    gas,            \* the gas run's counters
    aborted,        \* the assert() that failed and ended the process, or ""
    ctrl_c,         \* the cancel flag: ctrl_c_handler sets it to 1
    labels,         \* the interner's table: the copies intern_label made
    last_gc,        \* observation: the arena and the holders as the latest
                    \* gc call left them
    call            \* the last library call made by the harness

vars == <<GC, global_counter, arg_order, bindings, active_grid, gas_pool,
          gas, aborted, ctrl_c, labels, last_gc, call>>

-----------------------------------------------------------------------------
(* Symbols                                                                 *)

Sym(l, t) == [label |-> l, tag |-> t]

NoSymbol == Sym("", 0)

\* copy_string: malloc returns the address of a block that is none of the
\* blocks in use; the copies in the table are never freed
copy_string(tab) ==
    {a \in 1 .. Len(tab) + 2 : \A i \in 1 .. Len(tab) : tab[i].addr # a}

\* intern_label without the lookup: every call makes a copy
intern_label_always_copy(tab, label) ==
    {[labels |-> Append(tab, [addr |-> a, str |-> label]), handle |-> a] :
        a \in copy_string(tab)}

\* intern_label: the first entry that strcmp finds equal, or else a new
\* copy appended to the table; the handle is the address of the entry
intern_label(tab, label) ==
    IF \E i \in 1 .. Len(tab) : tab[i].str = label
    THEN LET i == CHOOSE k \in 1 .. Len(tab) :
                      /\ tab[k].str = label
                      /\ \A m \in 1 .. k - 1 : tab[m].str # label
         IN  {[labels |-> tab, handle |-> tab[i].addr]}
    ELSE {[labels |-> Append(tab, [addr |-> a, str |-> label]), handle |-> a] :
             a \in copy_string(tab)}

symbol(label) == Sym(label, 0)

symbol_eq(a, b) == a.label = b.label /\ a.tag = b.tag

\* s.tag = global_counter++
symbol_fresh_post_increment(h, s) ==
    [h |-> [h EXCEPT !.ctr = @ + 1], sym |-> Sym(s.label, h.ctr)]

\* symbol_fresh: s.tag = ++global_counter
symbol_fresh(h, s) ==
    [h |-> [h EXCEPT !.ctr = @ + 1], sym |-> Sym(s.label, h.ctr + 1)]

-----------------------------------------------------------------------------
(* The arena.  A heap value h threads GC and global_counter through the    *)
(* library functions: [slots, dead, gens, gen_cur, ctr, fault].  fault     *)
(* names the first assert() of the code that failed ("" while none has):   *)
(* "alloc_expr" for the assert in alloc_expr, "expr_slot" for the asserts  *)
(* of the expr_slot macro, "new_slots" for a write past the array that     *)
(* gc_compact allocates.                                                   *)

ZeroExpr ==
    [kind |-> "VAR", visited |-> FALSE, live |-> FALSE, sym |-> NoSymbol,
     body |-> 0, lhs |-> 0, rhs |-> 0]

\* GC = {0}, global_counter = 0
EmptyHeap == [slots |-> <<>>, dead |-> <<>>, gens |-> <<(<<>>), (<<>>)>>,
              gen_cur |-> 0, ctr |-> 0, fault |-> ""]

Slot(h, i) == h.slots[i + 1]

InArena(h, i) == i >= 0 /\ i < Len(h.slots)

alloc_expr(h) ==
    LET reuse  == Len(h.dead) > 0
        result == IF reuse THEN h.dead[Len(h.dead)] ELSE Len(h.slots)
        dead1  == IF reuse THEN SubSeq(h.dead, 1, Len(h.dead) - 1) ELSE h.dead
        slots1 == IF reuse THEN h.slots ELSE Append(h.slots, ZeroExpr)
    IN  [h   |-> [h EXCEPT !.slots = [slots1 EXCEPT ![result + 1].live = TRUE],
                           !.dead  = dead1,
                           !.gens[h.gen_cur + 1] = Append(@, result),
                           !.fault = IF @ = "" /\ slots1[result + 1].live
                                     THEN "alloc_expr" ELSE @],
         idx |-> result]

\* a free that does not put the slot on the free-list
free_expr_unlisted(h, expr) ==
    [h EXCEPT !.slots[expr + 1].live = FALSE,
              !.fault = IF @ = "" /\ ~h.slots[expr + 1].live
                        THEN "expr_slot" ELSE @]

free_expr(h, expr) ==
    [h EXCEPT !.slots[expr + 1].live = FALSE,
              !.dead = Append(@, expr),
              !.fault = IF @ = "" /\ ~h.slots[expr + 1].live
                        THEN "expr_slot" ELSE @]

\* expr_slot(expr) = (Expr){...} on the slot alloc_expr returned; a is
\* alloc_expr's result
init_slot(a, kind, sym, body, lhs, rhs) ==
    [h   |-> [a.h EXCEPT !.slots[a.idx + 1] =
                 [@ EXCEPT !.kind = kind, !.sym = sym,
                           !.body = body, !.lhs = lhs, !.rhs = rhs]],
     idx |-> a.idx]

var(h, name) == init_slot(alloc_expr(h), "VAR", name, 0, 0, 0)

magic(h, label) == init_slot(alloc_expr(h), "MAG", Sym(label, 0), 0, 0, 0)

fun(h, param, body) == init_slot(alloc_expr(h), "FUN", param, body, 0, 0)

app(h, lhs, rhs) == init_slot(alloc_expr(h), "APP", NoSymbol, 0, lhs, rhs)

RECURSIVE expr_mass(_, _)
expr_mass(h, expr) ==
    LET e == Slot(h, expr)
    IN  IF ~e.live THEN 0
        ELSE CASE e.kind = "VAR" -> 1
               [] e.kind = "MAG" -> 1
               [] e.kind = "FUN" -> 1 + expr_mass(h, e.body)
               [] e.kind = "APP" -> 1 + expr_mass(h, e.lhs) + expr_mass(h, e.rhs)

-----------------------------------------------------------------------------
(* Substitution and reduction                                              *)

RECURSIVE is_var_free_there(_, _, _)
is_var_free_there(h, name, there) ==
    LET e == Slot(h, there)
    IN  CASE e.kind = "VAR" -> symbol_eq(e.sym, name)
          [] e.kind = "FUN" -> IF symbol_eq(e.sym, name) THEN FALSE
                               ELSE is_var_free_there(h, name, e.body)
          [] e.kind = "APP" -> \/ is_var_free_there(h, name, e.lhs)
                               \/ is_var_free_there(h, name, e.rhs)
          [] e.kind = "MAG" -> FALSE

RECURSIVE replace(_, _, _, _)

\* replace with the renamed binder left under its old name: the bound
\* occurrences become p:n while the Fun still binds p
replace_stale_binder(h, param, body, arg) ==
    LET e == Slot(h, body)
    IN  CASE e.kind = "MAG" -> [h |-> h, idx |-> body]
          [] e.kind = "VAR" ->
                IF symbol_eq(e.sym, param) THEN [h |-> h, idx |-> arg]
                                           ELSE [h |-> h, idx |-> body]
          [] e.kind = "FUN" ->
                IF symbol_eq(e.sym, param) THEN [h |-> h, idx |-> body]
                ELSE IF ~is_var_free_there(h, e.sym, arg)
                THEN LET r == replace(h, param, e.body, arg)
                     IN  fun(r.h, e.sym, r.idx)
                ELSE LET f  == symbol_fresh(h, e.sym)
                         v  == var(f.h, f.sym)
                         r1 == replace(v.h, e.sym, e.body, v.idx)
                         r2 == replace(r1.h, param, r1.idx, arg)
                     IN  fun(r2.h, e.sym, r2.idx)
          [] e.kind = "APP" ->
                LET lr == arg_order = "LR"
                    r1 == replace(h, param, IF lr THEN e.lhs ELSE e.rhs, arg)
                    r2 == replace(r1.h, param, IF lr THEN e.rhs ELSE e.lhs, arg)
                IN  app(r2.h, IF lr THEN r1.idx ELSE r2.idx,
                              IF lr THEN r2.idx ELSE r1.idx)

\* replace without the capture check: substitutes under every binder
replace_naive(h, param, body, arg) ==
    LET e == Slot(h, body)
    IN  CASE e.kind = "MAG" -> [h |-> h, idx |-> body]
          [] e.kind = "VAR" ->
                IF symbol_eq(e.sym, param) THEN [h |-> h, idx |-> arg]
                                           ELSE [h |-> h, idx |-> body]
          [] e.kind = "FUN" ->
                IF symbol_eq(e.sym, param) THEN [h |-> h, idx |-> body]
                ELSE LET r == replace(h, param, e.body, arg)
                     IN  fun(r.h, e.sym, r.idx)
          [] e.kind = "APP" ->
                LET lr == arg_order = "LR"
                    r1 == replace(h, param, IF lr THEN e.lhs ELSE e.rhs, arg)
                    r2 == replace(r1.h, param, IF lr THEN e.rhs ELSE e.lhs, arg)
                IN  app(r2.h, IF lr THEN r1.idx ELSE r2.idx,
                              IF lr THEN r2.idx ELSE r1.idx)

\* replace that stores the new body into the Fun it was given instead of
\* building a new Fun
replace_in_place(h, param, body, arg) ==
    LET e == Slot(h, body)
    IN  CASE e.kind = "MAG" -> [h |-> h, idx |-> body]
          [] e.kind = "VAR" ->
                IF symbol_eq(e.sym, param) THEN [h |-> h, idx |-> arg]
                                           ELSE [h |-> h, idx |-> body]
          [] e.kind = "FUN" ->
                IF symbol_eq(e.sym, param) THEN [h |-> h, idx |-> body]
                ELSE IF ~is_var_free_there(h, e.sym, arg)
                THEN LET r == replace(h, param, e.body, arg)
                     IN  [h   |-> [r.h EXCEPT !.slots[body + 1].body = r.idx],
                          idx |-> body]
                ELSE LET rename(v, fresh) ==
                             LET r1 == replace(v.h, e.sym, e.body, v.idx)
                                 r2 == replace(r1.h, param, r1.idx, arg)
                             IN  fun(r2.h, fresh, r2.idx)
                         fresh_var(f) == rename(var(f.h, f.sym), f.sym)
                     IN  fresh_var(symbol_fresh(h, e.sym))
          [] e.kind = "APP" ->
                \* app(replace(.. lhs ..), replace(.. rhs ..)): the two
                \* arguments are evaluated in the build's order
                LET lr == arg_order = "LR"
                    r1 == replace(h, param, IF lr THEN e.lhs ELSE e.rhs, arg)
                    r2 == replace(r1.h, param, IF lr THEN e.rhs ELSE e.lhs, arg)
                IN  app(r2.h, IF lr THEN r1.idx ELSE r2.idx,
                              IF lr THEN r2.idx ELSE r1.idx)

replace(h, param, body, arg) ==
    LET e == Slot(h, body)
    IN  CASE e.kind = "MAG" -> [h |-> h, idx |-> body]
          [] e.kind = "VAR" ->
                IF symbol_eq(e.sym, param) THEN [h |-> h, idx |-> arg]
                                           ELSE [h |-> h, idx |-> body]
          [] e.kind = "FUN" ->
                IF symbol_eq(e.sym, param) THEN [h |-> h, idx |-> body]
                ELSE IF ~is_var_free_there(h, e.sym, arg)
                THEN LET r == replace(h, param, e.body, arg)
                     IN  fun(r.h, e.sym, r.idx)
                ELSE LET rename(v, fresh) ==
                             LET r1 == replace(v.h, e.sym, e.body, v.idx)
                                 r2 == replace(r1.h, param, r1.idx, arg)
                             IN  fun(r2.h, fresh, r2.idx)
                         fresh_var(f) == rename(var(f.h, f.sym), f.sym)
                     IN  fresh_var(symbol_fresh(h, e.sym))
          [] e.kind = "APP" ->
                \* app(replace(.. lhs ..), replace(.. rhs ..)): the two
                \* arguments are evaluated in the build's order
                LET lr == arg_order = "LR"
                    r1 == replace(h, param, IF lr THEN e.lhs ELSE e.rhs, arg)
                    r2 == replace(r1.h, param, IF lr THEN e.rhs ELSE e.lhs, arg)
                IN  app(r2.h, IF lr THEN r1.idx ELSE r2.idx,
                              IF lr THEN r2.idx ELSE r1.idx)

\* eval1 returns [h, idx, ok]: ok is the C function's bool result and idx
\* the value stored through expr1
RECURSIVE eval1(_, _)

\* eval1 that reduces both operands of an App in one call
eval1_both_operands(h, expr) ==
    LET e == Slot(h, expr)
        Same == [h |-> h, idx |-> expr, ok |-> TRUE]
        Fail(hh) == [h |-> hh, idx |-> expr, ok |-> FALSE]
        Ok(r) == [h |-> r.h, idx |-> r.idx, ok |-> TRUE]
    IN  CASE e.kind = "VAR" -> Same
          [] e.kind = "MAG" -> Same
          [] e.kind = "FUN" ->
                LET b == eval1(h, e.body)
                IN  IF ~b.ok THEN Fail(b.h)
                    ELSE IF b.idx # e.body THEN Ok(fun(b.h, e.sym, b.idx))
                    ELSE [h |-> b.h, idx |-> expr, ok |-> TRUE]
          [] e.kind = "APP" ->
                LET lhs == e.lhs
                    rhs == e.rhs
                    l   == Slot(h, lhs)
                IN  IF l.kind = "FUN"
                    THEN Ok(replace(h, l.sym, l.body, rhs))
                    ELSE IF l.kind = "MAG"
                    THEN IF l.sym.label = "trace"
                         THEN LET n == eval1(h, rhs)
                              IN  IF ~n.ok THEN Fail(n.h)
                                  ELSE IF n.idx = rhs
                                  THEN [h |-> n.h, idx |-> rhs, ok |-> TRUE]
                                  ELSE Ok(app(n.h, lhs, n.idx))
                         ELSE IF l.sym.label = "void"
                         THEN LET n == eval1(h, rhs)
                              IN  IF ~n.ok THEN Fail(n.h)
                                  ELSE IF n.idx = rhs
                                  THEN [h |-> n.h, idx |-> lhs, ok |-> TRUE]
                                  ELSE Ok(app(n.h, lhs, n.idx))
                         ELSE Fail(h)
                    ELSE LET nl == eval1(h, lhs)
                         IN  IF ~nl.ok THEN Fail(nl.h)
                             ELSE LET nr == eval1(nl.h, rhs)
                                  IN  IF ~nr.ok THEN Fail(nr.h)
                                      ELSE IF lhs # nl.idx \/ rhs # nr.idx
                                      THEN Ok(app(nr.h, nl.idx, nr.idx))
                                      ELSE [h |-> nr.h, idx |-> expr, ok |-> TRUE]

\* eval1 that never looks for a redex in the right operand of an App
eval1_lhs_only(h, expr) ==
    LET e == Slot(h, expr)
        Same == [h |-> h, idx |-> expr, ok |-> TRUE]
        Fail(hh) == [h |-> hh, idx |-> expr, ok |-> FALSE]
        Ok(r) == [h |-> r.h, idx |-> r.idx, ok |-> TRUE]
    IN  CASE e.kind = "VAR" -> Same
          [] e.kind = "MAG" -> Same
          [] e.kind = "FUN" ->
                LET b == eval1(h, e.body)
                IN  IF ~b.ok THEN Fail(b.h)
                    ELSE IF b.idx # e.body THEN Ok(fun(b.h, e.sym, b.idx))
                    ELSE [h |-> b.h, idx |-> expr, ok |-> TRUE]
          [] e.kind = "APP" ->
                LET lhs == e.lhs
                    rhs == e.rhs
                    l   == Slot(h, lhs)
                IN  IF l.kind = "FUN"
                    THEN Ok(replace(h, l.sym, l.body, rhs))
                    ELSE IF l.kind = "MAG"
                    THEN IF l.sym.label = "trace"
                         THEN LET n == eval1(h, rhs)
                              IN  IF ~n.ok THEN Fail(n.h)
                                  ELSE IF n.idx = rhs
                                  THEN [h |-> n.h, idx |-> rhs, ok |-> TRUE]
                                  ELSE Ok(app(n.h, lhs, n.idx))
                         ELSE IF l.sym.label = "void"
                         THEN LET n == eval1(h, rhs)
                              IN  IF ~n.ok THEN Fail(n.h)
                                  ELSE IF n.idx = rhs
                                  THEN [h |-> n.h, idx |-> lhs, ok |-> TRUE]
                                  ELSE Ok(app(n.h, lhs, n.idx))
                         ELSE Fail(h)
                    ELSE LET nl == eval1(h, lhs)
                         IN  IF ~nl.ok THEN Fail(nl.h)
                             ELSE IF lhs # nl.idx THEN Ok(app(nl.h, nl.idx, rhs))
                             ELSE [h |-> nl.h, idx |-> expr, ok |-> TRUE]

\* eval1 whose #void returns its operand, as #trace does
eval1_void_as_trace(h, expr) ==
    LET e == Slot(h, expr)
        Same == [h |-> h, idx |-> expr, ok |-> TRUE]
        Fail(hh) == [h |-> hh, idx |-> expr, ok |-> FALSE]
        Ok(r) == [h |-> r.h, idx |-> r.idx, ok |-> TRUE]
    IN  CASE e.kind = "VAR" -> Same
          [] e.kind = "MAG" -> Same
          [] e.kind = "FUN" ->
                LET b == eval1(h, e.body)
                IN  IF ~b.ok THEN Fail(b.h)
                    ELSE IF b.idx # e.body THEN Ok(fun(b.h, e.sym, b.idx))
                    ELSE [h |-> b.h, idx |-> expr, ok |-> TRUE]
          [] e.kind = "APP" ->
                LET lhs == e.lhs
                    rhs == e.rhs
                    l   == Slot(h, lhs)
                IN  IF l.kind = "FUN"
                    THEN Ok(replace(h, l.sym, l.body, rhs))
                    ELSE IF l.kind = "MAG"
                    THEN IF l.sym.label \in {"trace", "void"}
                         THEN LET n == eval1(h, rhs)
                              IN  IF ~n.ok THEN Fail(n.h)
                                  ELSE IF n.idx = rhs
                                  THEN [h |-> n.h, idx |-> rhs, ok |-> TRUE]
                                  ELSE Ok(app(n.h, lhs, n.idx))
                         ELSE Fail(h)
                    ELSE LET nl == eval1(h, lhs)
                         IN  IF ~nl.ok THEN Fail(nl.h)
                             ELSE IF lhs # nl.idx THEN Ok(app(nl.h, nl.idx, rhs))
                             ELSE LET nr == eval1(nl.h, rhs)
                                  IN  IF ~nr.ok THEN Fail(nr.h)
                                      ELSE IF rhs # nr.idx
                                      THEN Ok(app(nr.h, lhs, nr.idx))
                                      ELSE [h |-> nr.h, idx |-> expr, ok |-> TRUE]

\* eval1 that never reduces inside the body of a Fun
eval1_weak_head(h, expr) ==
    LET e == Slot(h, expr)
        Same == [h |-> h, idx |-> expr, ok |-> TRUE]
        Fail(hh) == [h |-> hh, idx |-> expr, ok |-> FALSE]
        Ok(r) == [h |-> r.h, idx |-> r.idx, ok |-> TRUE]
    IN  CASE e.kind = "VAR" -> Same
          [] e.kind = "MAG" -> Same
          [] e.kind = "FUN" -> Same
          [] e.kind = "APP" ->
                LET lhs == e.lhs
                    rhs == e.rhs
                    l   == Slot(h, lhs)
                IN  IF l.kind = "FUN"
                    THEN Ok(replace(h, l.sym, l.body, rhs))
                    ELSE IF l.kind = "MAG"
                    THEN IF l.sym.label = "trace"
                         THEN LET n == eval1(h, rhs)
                              IN  IF ~n.ok THEN Fail(n.h)
                                  ELSE IF n.idx = rhs
                                  THEN [h |-> n.h, idx |-> rhs, ok |-> TRUE]
                                  ELSE Ok(app(n.h, lhs, n.idx))
                         ELSE IF l.sym.label = "void"
                         THEN LET n == eval1(h, rhs)
                              IN  IF ~n.ok THEN Fail(n.h)
                                  ELSE IF n.idx = rhs
                                  THEN [h |-> n.h, idx |-> lhs, ok |-> TRUE]
                                  ELSE Ok(app(n.h, lhs, n.idx))
                         ELSE Fail(h)
                    ELSE LET nl == eval1(h, lhs)
                         IN  IF ~nl.ok THEN Fail(nl.h)
                             ELSE IF lhs # nl.idx THEN Ok(app(nl.h, nl.idx, rhs))
                             ELSE LET nr == eval1(nl.h, rhs)
                                  IN  IF ~nr.ok THEN Fail(nr.h)
                                      ELSE IF rhs # nr.idx
                                      THEN Ok(app(nr.h, lhs, nr.idx))
                                      ELSE [h |-> nr.h, idx |-> expr, ok |-> TRUE]

eval1(h, expr) ==
    LET e == Slot(h, expr)
        Same == [h |-> h, idx |-> expr, ok |-> TRUE]
        Fail(hh) == [h |-> hh, idx |-> expr, ok |-> FALSE]
        Ok(r) == [h |-> r.h, idx |-> r.idx, ok |-> TRUE]
    IN  CASE e.kind = "VAR" -> Same
          [] e.kind = "MAG" -> Same
          [] e.kind = "FUN" ->
                LET b == eval1(h, e.body)
                IN  IF ~b.ok THEN Fail(b.h)
                    ELSE IF b.idx # e.body THEN Ok(fun(b.h, e.sym, b.idx))
                    ELSE [h |-> b.h, idx |-> expr, ok |-> TRUE]
          [] e.kind = "APP" ->
                LET lhs == e.lhs
                    rhs == e.rhs
                    l   == Slot(h, lhs)
                IN  IF l.kind = "FUN"
                    THEN Ok(replace(h, l.sym, l.body, rhs))
                    ELSE IF l.kind = "MAG"
                    THEN IF l.sym.label = "trace"
                         THEN LET n == eval1(h, rhs)
                              IN  IF ~n.ok THEN Fail(n.h)
                                  ELSE IF n.idx = rhs
                                  THEN [h |-> n.h, idx |-> rhs, ok |-> TRUE]
                                  ELSE Ok(app(n.h, lhs, n.idx))
                         ELSE IF l.sym.label = "void"
                         THEN LET n == eval1(h, rhs)
                              IN  IF ~n.ok THEN Fail(n.h)
                                  ELSE IF n.idx = rhs
                                  THEN [h |-> n.h, idx |-> lhs, ok |-> TRUE]
                                  ELSE Ok(app(n.h, lhs, n.idx))
                         ELSE Fail(h)
                    ELSE LET nl == eval1(h, lhs)
                         IN  IF ~nl.ok THEN Fail(nl.h)
                             ELSE IF lhs # nl.idx THEN Ok(app(nl.h, nl.idx, rhs))
                             ELSE LET nr == eval1(nl.h, rhs)
                                  IN  IF ~nr.ok THEN Fail(nr.h)
                                      ELSE IF rhs # nr.idx
                                      THEN Ok(app(nr.h, lhs, nr.idx))
                                      ELSE [h |-> nr.h, idx |-> expr, ok |-> TRUE]

\* eval_bounded returns [h, res, out]; out is meaningful for EVAL_DONE only
\* (the C code leaves *out unwritten otherwise; the model keeps start there)
RECURSIVE eval_loop(_, _, _, _, _, _)

\* the driver loop with the mass check made after the step instead of
\* before it
eval_loop_check_late(h, start, curr, i, limit, max_mass) ==
    IF ~(i < limit) THEN [h |-> h, res |-> "EVAL_LIMIT", out |-> start]
    ELSE LET n == eval1(h, curr)
         IN  IF ~n.ok THEN [h |-> n.h, res |-> "EVAL_ERROR", out |-> start]
             ELSE IF curr = n.idx
             THEN [h |-> n.h, res |-> "EVAL_DONE", out |-> curr]
             ELSE IF max_mass > 0 /\ expr_mass(n.h, n.idx) > max_mass
             THEN [h |-> n.h, res |-> "EVAL_LIMIT", out |-> start]
             ELSE eval_loop(n.h, start, n.idx, i + 1, limit, max_mass)

\* the driver loop that reports a failed eval1 as EVAL_LIMIT
eval_loop_error_as_limit(h, start, curr, i, limit, max_mass) ==
    IF ~(i < limit) THEN [h |-> h, res |-> "EVAL_LIMIT", out |-> start]
    ELSE IF max_mass > 0 /\ expr_mass(h, curr) > max_mass
    THEN [h |-> h, res |-> "EVAL_LIMIT", out |-> start]
    ELSE LET step(n) ==
                 IF ~n.ok THEN [h |-> n.h, res |-> "EVAL_LIMIT", out |-> start]
                 ELSE IF curr = n.idx
                 THEN [h |-> n.h, res |-> "EVAL_DONE", out |-> curr]
                 ELSE eval_loop(n.h, start, n.idx, i + 1, limit, max_mass)
         IN  step(eval1(h, curr))

eval_loop(h, start, curr, i, limit, max_mass) ==
    IF ~(i < limit) THEN [h |-> h, res |-> "EVAL_LIMIT", out |-> start]
    ELSE IF max_mass > 0 /\ expr_mass(h, curr) > max_mass
    THEN [h |-> h, res |-> "EVAL_LIMIT", out |-> start]
    ELSE LET step(n) ==
                 IF ~n.ok THEN [h |-> n.h, res |-> "EVAL_ERROR", out |-> start]
                 ELSE IF curr = n.idx
                 THEN [h |-> n.h, res |-> "EVAL_DONE", out |-> curr]
                 ELSE eval_loop(n.h, start, n.idx, i + 1, limit, max_mass)
         IN  step(eval1(h, curr))

eval_bounded(h, start, limit, max_mass) ==
    eval_loop(h, start, start, 0, limit, max_mass)

-----------------------------------------------------------------------------
(* The collector.  expr_slot asserts that the index is inside the arena    *)
(* and that the slot is live; a failed assert sets fault.  Once fault is   *)
(* set the process is gone and the rest of the heap value is irrelevant.   *)

Failed(h) == h.fault # ""

Fault(h) == [h EXCEPT !.fault = IF @ = "" THEN "expr_slot" ELSE @]

Usable(h, i) == InArena(h, i) /\ Slot(h, i).live

RECURSIVE gc_mark(_, _)
gc_mark(h, root) ==
    IF Failed(h) THEN h
    ELSE IF ~Usable(h, root) THEN Fault(h)
    ELSE IF Slot(h, root).visited THEN h
    ELSE LET e  == Slot(h, root)
             h1 == [h EXCEPT !.slots[root + 1].visited = TRUE]
         IN  CASE e.kind = "FUN" -> gc_mark(h1, e.body)
               [] e.kind = "APP" -> gc_mark(gc_mark(h1, e.lhs), e.rhs)
               [] OTHER -> h1

\* gc_mark over a sequence of roots, in order
RECURSIVE gc_mark_all(_, _, _)
gc_mark_all(h, roots, i) ==
    IF i > Len(roots) THEN h
    ELSE gc_mark_all(gc_mark(h, roots[i]), roots, i + 1)

\* first loop of gc: clear visited on the current generation
RECURSIVE gc_unvisit(_, _)
gc_unvisit(h, i) ==
    IF Failed(h) \/ i > Len(h.gens[h.gen_cur + 1]) THEN h
    ELSE LET expr == h.gens[h.gen_cur + 1][i]
         IN  IF ~Usable(h, expr) THEN Fault(h)
             ELSE gc_unvisit([h EXCEPT !.slots[expr + 1].visited = FALSE],
                             i + 1)

RECURSIVE gc_sweep(_, _, _)
\* last loop of gc: survivors move to the other generation, the rest is
\* freed; then the generations are swapped
gc_sweep(h, i, next) ==
    IF Failed(h) THEN h
    ELSE IF i > Len(h.gens[h.gen_cur + 1]) THEN [h EXCEPT !.gen_cur = next]
    ELSE LET expr == h.gens[h.gen_cur + 1][i]
         IN  IF ~Usable(h, expr) THEN Fault(h)
             ELSE IF Slot(h, expr).visited
             THEN gc_sweep([h EXCEPT !.gens[next + 1] = Append(@, expr)],
                           i + 1, next)
             ELSE gc_sweep(free_expr(h, expr), i + 1, next)

\* the indices a sequence of holders keeps
BodiesOf(bs) == [i \in 1 .. Len(bs) |-> bs[i].body]

RECURSIVE OccupiedAtoms(_, _)
OccupiedAtoms(cells, i) ==
    IF i > Len(cells) THEN <<>>
    ELSE IF cells[i].occupied
    THEN <<cells[i].atom>> \o OccupiedAtoms(cells, i + 1)
    ELSE OccupiedAtoms(cells, i + 1)

\* gens[next].count = 0 and the last loop of gc, on the marked heap
gc_collect(h, next) ==
    IF Failed(h) THEN h
    ELSE gc_sweep([h EXCEPT !.gens[next + 1] = <<>>], 1, next)

\* the first loop of gc, gc_mark(root) and the loop over the bindings
gc_mark_roots(h, root, bs) ==
    gc_mark_all(gc_mark(gc_unvisit(h, 1), root), BodiesOf(bs), 1)

\* a collector that marks the root and the bindings but no grid cell
gc_no_cells(h, root, bs, g) ==
    gc_collect(gc_mark_roots(h, root, bs), 1 - h.gen_cur)

\* gc of lamb_grid.c: the roots are root, the binding bodies and the atoms
\* of the occupied cells of active_grid
gc(h, root, bs, g) ==
    gc_collect(gc_mark_all(gc_mark_roots(h, root, bs),
                           OccupiedAtoms(g.cells, 1), 1),
               1 - h.gen_cur)

\* a collector of the gas that marks the root and the bindings but not the
\* pool
gas_gc_no_pool(h, root, bs, pool) ==
    gc_collect(gc_mark_roots(h, root, bs), 1 - h.gen_cur)

\* gc of lamb_gas.c: the roots are root, the binding bodies and gas_pool
gas_gc(h, root, bs, pool) ==
    gc_collect(gc_mark_all(gc_mark_roots(h, root, bs), pool, 1),
               1 - h.gen_cur)

gc_slot_count(h) == Len(h.slots)

-----------------------------------------------------------------------------
(* gc_compact.  The live slots move to the front of a new array, in index  *)
(* order; remap sends an old index to its new one.  An index whose remap   *)
(* entry is unmapped ((size_t)-1) is left as it is.                        *)

RECURSIVE LiveIndices(_, _)
LiveIndices(h, i) ==
    IF i >= Len(h.slots) THEN <<>>
    ELSE IF Slot(h, i).live THEN <<i>> \o LiveIndices(h, i + 1)
    ELSE LiveIndices(h, i + 1)

\* remap[i]: the number of live slots below i, when slot i is live
Remap(h, i) ==
    IF Usable(h, i)
    THEN Cardinality({j \in 0 .. i - 1 : Slot(h, j).live})
    ELSE i

Mapped(h, i) == Usable(h, i)

RemapChildren(h, e) ==
    CASE e.kind = "FUN" -> [e EXCEPT !.body = Remap(h, @)]
      [] e.kind = "APP" -> [e EXCEPT !.lhs = Remap(h, @), !.rhs = Remap(h, @)]
      [] OTHER -> e

RECURSIVE RemapGen(_, _, _)
RemapGen(h, gen, i) ==
    IF i > Len(gen) THEN <<>>
    ELSE IF Mapped(h, gen[i])
    THEN <<Remap(h, gen[i])>> \o RemapGen(h, gen, i + 1)
    ELSE RemapGen(h, gen, i + 1)

RemapCells(h, cells) ==
    [i \in 1 .. Len(cells) |->
        IF cells[i].occupied THEN [cells[i] EXCEPT !.atom = Remap(h, @)]
        ELSE cells[i]]

RemapBindings(h, bs) ==
    [i \in 1 .. Len(bs) |-> [bs[i] EXCEPT !.body = Remap(h, @)]]

\* a compaction that leaves the free-list as it was
gc_compact_keep_dead(h, g, bs, with_bindings) ==
    IF Len(h.slots) = 0 \/ Len(h.dead) < Len(h.slots) \div 2
    THEN [h |-> h, g |-> g, bs |-> bs, done |-> FALSE]
    ELSE LET keep == LiveIndices(h, 0)
         IN  [h  |-> [h EXCEPT
                        !.slots = [k \in 1 .. Len(keep) |->
                                      RemapChildren(h, Slot(h, keep[k]))],
                        !.gens  = <<RemapGen(h, h.gens[1], 1),
                                    RemapGen(h, h.gens[2], 1)>>,
                        !.fault = IF @ = "" /\ Len(keep) >
                                         Len(h.slots) - Len(h.dead)
                                  THEN "new_slots" ELSE @],
              g  |-> [g EXCEPT !.cells = RemapCells(h, @)],
              bs |-> IF with_bindings THEN RemapBindings(h, bs) ELSE bs,
              done |-> TRUE]

\* a compaction that clears the free-list and leaves the slots array as it
\* was
gc_compact_no_rebuild(h, g, bs, with_bindings) ==
    IF Len(h.slots) = 0 \/ Len(h.dead) < Len(h.slots) \div 2
    THEN [h |-> h, g |-> g, bs |-> bs, done |-> FALSE]
    ELSE [h |-> [h EXCEPT !.dead = <<>>], g |-> g, bs |-> bs, done |-> TRUE]

\* gc_compact(bindings) with the grid it rewrites; with_bindings is FALSE
\* for gc_compact(NULL).  Returns the heap, the grid, the bindings and
\* whether the arena was rebuilt (done).  Copying more live slots than
\* slots.count - dead.count overruns new_slots: fault.
gc_compact(h, g, bs, with_bindings) ==
    IF Len(h.slots) = 0 \/ Len(h.dead) < Len(h.slots) \div 2
    THEN [h |-> h, g |-> g, bs |-> bs, done |-> FALSE]
    ELSE LET keep == LiveIndices(h, 0)
         IN  [h  |-> [h EXCEPT
                        !.slots = [k \in 1 .. Len(keep) |->
                                      RemapChildren(h, Slot(h, keep[k]))],
                        !.dead  = <<>>,
                        !.gens  = <<RemapGen(h, h.gens[1], 1),
                                    RemapGen(h, h.gens[2], 1)>>,
                        !.fault = IF @ = "" /\ Len(keep) >
                                         Len(h.slots) - Len(h.dead)
                                  THEN "new_slots" ELSE @],
              g  |-> [g EXCEPT !.cells = RemapCells(h, @)],
              bs |-> IF with_bindings THEN RemapBindings(h, bs) ELSE bs,
              done |-> TRUE]

-----------------------------------------------------------------------------
(* Bindings and the combinator generator.  Operators that consume rand()   *)
(* return the set of their possible outcomes.                              *)

\* a binding is always appended
create_binding_append(bs, name, body) ==
    Append(bs, [name |-> name, body |-> body])

create_binding(bs, name, body) ==
    IF \E i \in 1 .. Len(bs) : symbol_eq(bs[i].name, name)
    THEN LET i == CHOOSE k \in 1 .. Len(bs) :
                     /\ symbol_eq(bs[k].name, name)
                     /\ \A j \in 1 .. k - 1 : ~symbol_eq(bs[j].name, name)
         IN  [bs EXCEPT ![i].body = body]
    ELSE Append(bs, [name |-> name, body |-> body])

\* fun(symbol("x"), var(symbol("x")))
IdentityFallback(h) ==
    LET bind(v) == fun(v.h, symbol("x"), v.idx) IN bind(var(h, symbol("x")))

\* a choice that may also take the name of the next binder, which is not
\* in env
PickVar_unbound(h, env) ==
    {var(h, symbol("v" \o ToString(k))) : k \in 0 .. Len(env)}

\* var(symbol(env[rand() % env_count]))
PickVar(h, env) == {var(h, symbol(env[k])) : k \in 1 .. Len(env)}

\* generate_rich_combinator(current_depth, max_depth, env, env_count): the
\* set of [h, idx] it can return.  The two operands of app(...) are
\* generated in the build's argument order.
RECURSIVE generate_rich_combinator(_, _, _, _)
generate_rich_combinator(h, current_depth, max_depth, env) ==
    LET env_count    == Len(env)
        force_growth == current_depth < max_depth \div 3
        param_name   == "v" \o ToString(env_count)
        do_abs ==
            IF env_count >= 63 THEN {IdentityFallback(h)}
            ELSE {fun(b.h, symbol(param_name), b.idx) :
                    b \in generate_rich_combinator(h, current_depth + 1,
                              max_depth, Append(env, param_name))}
        do_app ==
            UNION {{IF arg_order = "LR" THEN app(s.h, f.idx, s.idx)
                                        ELSE app(s.h, s.idx, f.idx) :
                      s \in generate_rich_combinator(f.h, current_depth + 1,
                                max_depth, env)} :
                   f \in generate_rich_combinator(h, current_depth + 1,
                             max_depth, env)}
    IN  IF current_depth >= max_depth
        THEN IF env_count > 0 THEN PickVar(h, env)
             ELSE {IdentityFallback(h)}
        ELSE IF env_count = 0 THEN do_abs
        ELSE IF force_growth THEN do_app \cup do_abs
        ELSE do_app \cup do_abs \cup PickVar(h, env)

is_identity(h, expr) ==
    LET e == Slot(h, expr)
    IN  /\ e.kind = "FUN"
        /\ Slot(h, e.body).kind = "VAR"
        /\ symbol_eq(e.sym, Slot(h, e.body).sym)

\* do { e = generate_rich_combinator(0, depth, NULL, 0); sub_attempts++; }
\* while (is_identity(e) && sub_attempts < retries)
RECURSIVE generate_non_identity(_, _, _, _)
generate_non_identity(h, depth, sub_attempts, retries) ==
    UNION {IF is_identity(e.h, e.idx) /\ sub_attempts + 1 < retries
           THEN generate_non_identity(e.h, depth, sub_attempts + 1, retries)
           ELSE {e} :
           e \in generate_rich_combinator(h, 0, depth, <<>>)}

-----------------------------------------------------------------------------
(* The grid reactor                                                        *)

\* MAX_AGE: 50 in lamb.h; the model runs the reactor with a shorter life
MAX_AGE == 2

\* COSMIC_RAY_RATE, out of 100000
COSMIC_RAY_RATE == 1

\* the depth of a cosmic-ray combinator: 3 in grid_step; at depth 2 the
\* generator yields \v0.v0, \v0.v0 v0, \v0.\v1.v0 and \v0.\v1.v1
CosmicDepth == 2

\* grid_seed's tries per cell
SeedRetries == 5

\* grid_step collects every GcPeriod steps (10 in lamb_grid.c) and considers
\* compaction every CompactPeriod steps (100) when the arena has more than
\* CompactMinSlots slots (10000); the model keeps the structure "every
\* tenth collection may compact" at a smaller scale
GcPeriod == 2

CompactPeriod == 2

CompactMinSlots == 4

\* max_mass of the :grid command's grid_step calls
GridMaxMass == 2000

EmptyCell == [atom |-> 0, occupied |-> FALSE, age |-> 0, generation |-> 0]

grid_init(w, h) ==
    [width |-> w, height |-> h, cells |-> [i \in 1 .. w * h |-> EmptyCell],
     steps |-> 0, reactions_success |-> 0, reactions_diverged |-> 0,
     movements |-> 0, deaths_age |-> 0, cosmic_spawns |-> 0]

\* C's % truncates towards zero; the wrap adds the modulus back
grid_idx(g, x, y) ==
    LET wx0 == IF x < 0 THEN -((-x) % g.width) ELSE x % g.width
        wx  == IF wx0 < 0 THEN wx0 + g.width ELSE wx0
        wy0 == IF y < 0 THEN -((-y) % g.height) ELSE y % g.height
        wy  == IF wy0 < 0 THEN wy0 + g.height ELSE wy0
    IN  wy * g.width + wx

\* the cell of 0-based index idx
CellAt(g, idx) == g.cells[idx + 1]

grid_population(g) ==
    Cardinality({i \in 1 .. g.width * g.height : g.cells[i].occupied})

\* a cosmic ray is counted at most MaxCosmicSpawns times in a run
MaxCosmicSpawns == 1

NewCell(atom) ==
    [atom |-> atom, occupied |-> TRUE, age |-> 0, generation |-> 0]

\* one pass of grid_seed's loop from s = [h, g, placed]
seed_attempt(s, count, depth) ==
    IF ~(s.placed < count) THEN {s}
    ELSE UNION {LET idx == grid_idx(s.g, x, y)
                IN  IF CellAt(s.g, idx).occupied THEN {s}
                    ELSE {[h |-> e.h,
                           g |-> [s.g EXCEPT !.cells[idx + 1] = NewCell(e.idx)],
                           placed |-> s.placed + 1] :
                          e \in generate_non_identity(s.h, depth, 0,
                                                      SeedRetries)} :
                x \in 0 .. s.g.width - 1, y \in 0 .. s.g.height - 1}

RECURSIVE seed_loop(_, _, _, _)
seed_loop(S, attempts, count, depth) ==
    IF ~(attempts < count * 10) THEN S
    ELSE seed_loop(UNION {seed_attempt(s, count, depth) : s \in S},
                   attempts + 1, count, depth)

\* grid_seed(g, count, depth): the set of [h, g, placed] it can leave
grid_seed(h, g, count, depth) ==
    seed_loop({[h |-> h, g |-> g, placed |-> 0]}, 0, count, depth)

\* a movement that leaves the source cell occupied
interact_keep_source(h, g, curr_idx, dir, eval_steps, max_mass) ==
    LET cx == curr_idx % g.width
        cy == curr_idx \div g.width
        tx == CASE dir = 1 -> cx + 1 [] dir = 3 -> cx - 1 [] OTHER -> cx
        ty == CASE dir = 0 -> cy - 1 [] dir = 2 -> cy + 1 [] OTHER -> cy
        target_idx == grid_idx(g, tx, ty)
    IN  IF ~CellAt(g, target_idx).occupied
        THEN [h |-> h,
              g |-> [g EXCEPT
                       !.cells = [@ EXCEPT ![target_idx + 1] =
                                              g.cells[curr_idx + 1]],
                       !.movements = @ + 1]]
        ELSE LET A == CellAt(g, curr_idx).atom
                 B == CellAt(g, target_idx).atom
                 a == app(h, A, B)
                 r == eval_bounded(a.h, a.idx, eval_steps, max_mass)
             IN  IF r.res = "EVAL_DONE"
                 THEN [h |-> r.h,
                       g |-> [g EXCEPT
                                !.cells = [[@ EXCEPT ![curr_idx + 1].age = 0]
                                           EXCEPT
                                             ![target_idx + 1].atom = r.out,
                                             ![target_idx + 1].age = 0,
                                             ![target_idx + 1].generation =
                                                 @ + 1],
                                !.reactions_success = @ + 1]]
                 ELSE [h |-> r.h,
                       g |-> [g EXCEPT
                                !.cells[target_idx + 1].occupied = FALSE,
                                !.reactions_diverged = @ + 1]]

\* a successful reaction that resets no age
interact_no_rejuvenation(h, g, curr_idx, dir, eval_steps, max_mass) ==
    LET cx == curr_idx % g.width
        cy == curr_idx \div g.width
        tx == CASE dir = 1 -> cx + 1 [] dir = 3 -> cx - 1 [] OTHER -> cx
        ty == CASE dir = 0 -> cy - 1 [] dir = 2 -> cy + 1 [] OTHER -> cy
        target_idx == grid_idx(g, tx, ty)
    IN  IF ~CellAt(g, target_idx).occupied
        THEN [h |-> h,
              g |-> [g EXCEPT
                       !.cells = [[@ EXCEPT ![target_idx + 1] =
                                               g.cells[curr_idx + 1]]
                                  EXCEPT ![curr_idx + 1].occupied = FALSE],
                       !.movements = @ + 1]]
        ELSE LET A == CellAt(g, curr_idx).atom
                 B == CellAt(g, target_idx).atom
                 a == app(h, A, B)
                 r == eval_bounded(a.h, a.idx, eval_steps, max_mass)
             IN  IF r.res = "EVAL_DONE"
                 THEN [h |-> r.h,
                       g |-> [g EXCEPT
                                !.cells = [@ EXCEPT
                                             ![target_idx + 1].atom = r.out,
                                             ![target_idx + 1].generation =
                                                 @ + 1],
                                !.reactions_success = @ + 1]]
                 ELSE [h |-> r.h,
                       g |-> [g EXCEPT
                                !.cells[target_idx + 1].occupied = FALSE,
                                !.reactions_diverged = @ + 1]]

\* the movement-or-interaction part of grid_step's loop body for the
\* occupied cell curr_idx and direction dir
interact(h, g, curr_idx, dir, eval_steps, max_mass) ==
    LET cx == curr_idx % g.width
        cy == curr_idx \div g.width
        tx == CASE dir = 1 -> cx + 1 [] dir = 3 -> cx - 1 [] OTHER -> cx
        ty == CASE dir = 0 -> cy - 1 [] dir = 2 -> cy + 1 [] OTHER -> cy
        target_idx == grid_idx(g, tx, ty)
    IN  IF ~CellAt(g, target_idx).occupied
        THEN [h |-> h,
              g |-> [g EXCEPT
                       !.cells = [[@ EXCEPT ![target_idx + 1] =
                                               g.cells[curr_idx + 1]]
                                  EXCEPT ![curr_idx + 1].occupied = FALSE],
                       !.movements = @ + 1]]
        ELSE LET A == CellAt(g, curr_idx).atom
                 B == CellAt(g, target_idx).atom
                 a == app(h, A, B)
                 r == eval_bounded(a.h, a.idx, eval_steps, max_mass)
             IN  IF r.res = "EVAL_DONE"
                 THEN [h |-> r.h,
                       g |-> [g EXCEPT
                                !.cells = [[@ EXCEPT ![curr_idx + 1].age = 0]
                                           EXCEPT
                                             ![target_idx + 1].atom = r.out,
                                             ![target_idx + 1].age = 0,
                                             ![target_idx + 1].generation =
                                                 @ + 1],
                                !.reactions_success = @ + 1]]
                 ELSE [h |-> r.h,
                       g |-> [g EXCEPT
                                !.cells[target_idx + 1].occupied = FALSE,
                                !.reactions_diverged = @ + 1]]

\* a loop body whose death test reads the age before the increment
process_cell_test_before_aging(st, curr_idx, eval_steps, max_mass) ==
    LET c  == CellAt(st.g, curr_idx)
        g1 == IF c.occupied
              THEN [st.g EXCEPT !.cells[curr_idx + 1].age = @ + 1]
              ELSE st.g
    IN  IF c.occupied /\ c.age > MAX_AGE
        THEN {[h |-> st.h,
               g |-> [g1 EXCEPT !.cells[curr_idx + 1].occupied = FALSE,
                                !.deaths_age = @ + 1]]}
        ELSE IF ~c.occupied
        THEN (IF COSMIC_RAY_RATE < 100000 THEN {st} ELSE {}) \cup
             (IF COSMIC_RAY_RATE > 0 /\ st.g.cosmic_spawns < MaxCosmicSpawns
              THEN {[h |-> e.h,
                     g |-> [st.g EXCEPT
                              !.cells[curr_idx + 1] = NewCell(e.idx),
                              !.cosmic_spawns = @ + 1]] :
                    e \in generate_rich_combinator(st.h, 0, CosmicDepth, <<>>)}
              ELSE {})
        ELSE {interact(st.h, g1, curr_idx, dir, eval_steps, max_mass) :
              dir \in 0 .. 3}

\* the body of grid_step's loop for cell curr_idx, from st = [h, g]: the
\* set of states the draws of rand() can lead to
process_cell(st, curr_idx, eval_steps, max_mass) ==
    LET c  == CellAt(st.g, curr_idx)
        g1 == IF c.occupied
              THEN [st.g EXCEPT !.cells[curr_idx + 1].age = @ + 1]
              ELSE st.g
    IN  IF c.occupied /\ c.age + 1 > MAX_AGE
        THEN {[h |-> st.h,
               g |-> [g1 EXCEPT !.cells[curr_idx + 1].occupied = FALSE,
                                !.deaths_age = @ + 1]]}
        ELSE IF ~c.occupied
        THEN (IF COSMIC_RAY_RATE < 100000 THEN {st} ELSE {}) \cup
             (IF COSMIC_RAY_RATE > 0 /\ st.g.cosmic_spawns < MaxCosmicSpawns
              THEN {[h |-> e.h,
                     g |-> [st.g EXCEPT
                              !.cells[curr_idx + 1] = NewCell(e.idx),
                              !.cosmic_spawns = @ + 1]] :
                    e \in generate_rich_combinator(st.h, 0, CosmicDepth, <<>>)}
              ELSE {})
        ELSE {interact(st.h, g1, curr_idx, dir, eval_steps, max_mass) :
              dir \in 0 .. 3}

RECURSIVE process_cells(_, _, _, _, _)
process_cells(S, indices, i, eval_steps, max_mass) ==
    IF i > Len(indices) THEN S
    ELSE process_cells(
             UNION {process_cell(st, indices[i], eval_steps, max_mass) :
                    st \in S},
             indices, i + 1, eval_steps, max_mass)

\* the orders the Fisher-Yates shuffle can produce: all of them
Shuffles(total) ==
    {p \in [1 .. total -> 0 .. total - 1] :
        \A i, j \in 1 .. total : i # j => p[i] # p[j]}

\* what a gc call left behind: the heap, its root and the holders
NoGcCall ==
    [called |-> FALSE, h |-> EmptyHeap, root |-> 0, bs |-> <<>>,
     cells |-> <<>>, pool |-> <<>>]

GcCall(h, root, bs, cells, pool) ==
    [called |-> TRUE, h |-> h, root |-> root, bs |-> bs, cells |-> cells,
     pool |-> pool]

\* the end of grid_step: steps++, the periodic gc and the compaction.
\* Returns [h, g, bs, seen, did] where seen is the heap as gc left it and
\* did is "", "gc" or "gc_compact"
finish_step(st, bs, seen) ==
    LET g1 == [st.g EXCEPT !.steps = @ + 1]
    IN  IF g1.steps % GcPeriod = 0 /\ ~Failed(st.h)
        THEN LET d  == var(st.h, symbol("_dummy"))
                 h1 == gc(d.h, d.idx, bs, g1)
                 s1 == GcCall(h1, d.idx, bs, g1.cells, <<>>)
             IN  IF Failed(h1)
                 THEN [h |-> h1, g |-> g1, bs |-> bs, seen |-> seen,
                       did |-> "gc"]
                 ELSE IF g1.steps % CompactPeriod = 0
                         /\ gc_slot_count(h1) > CompactMinSlots
                 THEN LET c == gc_compact(h1, g1, bs, FALSE)
                      IN  [h |-> c.h, g |-> c.g, bs |-> c.bs, seen |-> s1,
                           did |-> IF c.done THEN "gc_compact" ELSE "gc"]
                 ELSE [h |-> h1, g |-> g1, bs |-> bs, seen |-> s1,
                       did |-> "gc"]
        ELSE [h |-> st.h, g |-> g1, bs |-> bs, seen |-> seen, did |-> ""]

\* grid_step(g, bindings, eval_steps, max_mass): the set of its outcomes
grid_step(h, g, bs, seen, eval_steps, max_mass) ==
    {finish_step(st, bs, seen) :
       st \in UNION {process_cells({[h |-> h, g |-> g]}, indices, 1,
                                   eval_steps, max_mass) :
                     indices \in Shuffles(g.width * g.height)}}

-----------------------------------------------------------------------------
(* Harness for the library functions: the arena holds expressions built by *)
(* the constructors var, magic, fun and app, and one call of replace or    *)
(* eval_bounded is made on them.                                           *)

MaxInitSlots == 3

MaxEvalSteps == 4

MaxMassLimit == 10

Labels == {"x", "y"}

MagicLabels == {"trace", "void", "foo"}

\* the symbols an arena may hold before the call: source-level names and
\* names tagged by an earlier symbol_fresh (global_counter = 1)
TaggedSymbols == {Sym(l, t) : l \in Labels, t \in {0, 1}}

PlainSymbols == {Sym(l, 0) : l \in Labels}

\* every way to extend h by one constructor call over the existing slots
Extend(h, syms, mags) ==
    {var(h, s).h : s \in syms} \cup
    {magic(h, m).h : m \in mags} \cup
    {fun(h, s, b).h : s \in syms, b \in 0 .. Len(h.slots) - 1} \cup
    {app(h, l, r).h : l \in 0 .. Len(h.slots) - 1, r \in 0 .. Len(h.slots) - 1}

RECURSIVE Arenas(_, _, _, _)
Arenas(h0, syms, mags, n) ==
    IF n = 0 THEN {h0}
    ELSE UNION {Extend(h, syms, mags) : h \in Arenas(h0, syms, mags, n - 1)}

GCOf(h) == [slots |-> h.slots, dead |-> h.dead, gens |-> h.gens,
            gen_cur |-> h.gen_cur]

Heap == [slots |-> GC.slots, dead |-> GC.dead, gens |-> GC.gens,
         gen_cur |-> GC.gen_cur, ctr |-> global_counter, fault |-> ""]

NoCall == [fn |-> "none", param |-> NoSymbol, body |-> 0, arg |-> 0,
           limit |-> 0, max_mass |-> 0, res |-> "", out |-> 0,
           count |-> 0, depth |-> 0, hash |-> <<>>,
           input |-> <<>>]

NoGrid == [width |-> 0, height |-> 0, cells |-> <<>>, steps |-> 0,
           reactions_success |-> 0, reactions_diverged |-> 0, movements |-> 0,
           deaths_age |-> 0, cosmic_spawns |-> 0]

NoGas == [it |-> 0, iterations |-> 0, converged |-> 0, diverged |-> 0,
          errors |-> 0, running |-> FALSE]

Idle ==
    /\ bindings = <<>>
    /\ active_grid = NoGrid
    /\ gas_pool = <<>>
    /\ gas = NoGas
    /\ aborted = ""
    /\ ctrl_c = 0
    /\ labels = <<>>
    /\ last_gc = NoGcCall
    /\ call = NoCall

\* global_counter is 0 (no symbol_fresh call yet: every tag is 0) or 1
InitReplace ==
    /\ arg_order \in {"LR", "RL"}
    /\ \E h \in Arenas(EmptyHeap, PlainSymbols, {"trace"}, MaxInitSlots) \cup
               Arenas([EmptyHeap EXCEPT !.ctr = 1], TaggedSymbols, {"trace"},
                      MaxInitSlots) :
          /\ GC = GCOf(h)
          /\ global_counter = h.ctr
    /\ Idle

\* replace(param, body, arg) on the expression built last; param is a symbol
\* that exists: a source-level name or one symbol_fresh has issued
CallReplace ==
    /\ call.fn = "none"
    /\ \E param \in {s \in TaggedSymbols : s.tag <= global_counter},
          arg \in 0 .. Len(GC.slots) - 1 :
          LET body == Len(GC.slots) - 1
              r == replace(Heap, param, body, arg)
          IN  /\ GC' = GCOf(r.h)
              /\ global_counter' = r.h.ctr
              /\ call' = [NoCall EXCEPT !.fn = "replace", !.param = param,
                                        !.body = body, !.arg = arg,
                                        !.out = r.idx]
    /\ UNCHANGED <<ctrl_c, labels>>
    /\ UNCHANGED <<arg_order, bindings, active_grid, gas_pool, gas, aborted,
                   last_gc>>

SpecReplace == InitReplace /\ [][CallReplace]_vars

\* Source terms: V a name, M a magic, F a function, A an application
V(l) == <<"var", l>>

M(l) == <<"mag", l>>

F(l, b) == <<"fun", l, b>>

A(l, r) == <<"app", l, r>>

\* the expression the parser builds for a term: parse_primary allocates a
\* name or a magic, parse_fun the body and then the Fun, parse_expr the
\* operands from left to right and an App after each right operand
RECURSIVE parse(_, _)
parse(h, t) ==
    CASE t[1] = "var" -> var(h, symbol(t[2]))
      [] t[1] = "mag" -> magic(h, t[2])
      [] t[1] = "fun" -> LET b == parse(h, t[3])
                         IN  fun(b.h, symbol(t[2]), b.idx)
      [] t[1] = "app" -> LET l == parse(h, t[2])
                             r == parse(l.h, t[3])
                         IN  app(r.h, l.idx, r.idx)

\* the expressions of test_lamb.c, a diverging term, a growing term, an
\* unknown magic, #void and #trace applied to a redex, and an App with a
\* redex in each operand
TestPrograms ==
    << A(F("x", V("x")), V("y")),
       A(A(F("x", F("y", V("x"))), V("a")), V("b")),
       A(A(F("x", F("y", V("y"))), V("a")), V("b")),
       A(F("x", F("y", V("x"))), V("y")),
       A(A(A(F("x", F("y", F("z", A(A(V("x"), V("z")), A(V("y"), V("z")))))),
             V("a")), V("b")), V("c")),
       A(M("void"), F("x", V("x"))),
       A(M("trace"), F("z", V("z"))),
       A(F("n", F("f", F("x", A(V("f"), A(A(V("n"), V("f")), V("x")))))),
         F("f", F("x", A(V("f"), V("x"))))),
       A(F("x", A(V("x"), V("x"))), F("x", A(V("x"), V("x")))),
       A(F("x", A(A(V("x"), V("x")), V("x"))), A(V("y"), V("y"))),
       A(M("foo"), V("x")),
       A(M("void"), A(F("x", V("x")), V("y"))),
       A(M("trace"), A(F("x", V("x")), V("y"))),
       A(A(V("x"), A(F("x", V("x")), V("y"))), A(F("x", V("x")), V("y"))) >>

InitEval ==
    /\ arg_order \in {"LR", "RL"}
    /\ \E h \in Arenas(EmptyHeap, PlainSymbols, MagicLabels, MaxInitSlots) \cup
               {parse(EmptyHeap, TestPrograms[i]).h :
                    i \in 1 .. Len(TestPrograms)} :
          /\ GC = GCOf(h)
          /\ global_counter = h.ctr
    /\ Idle

\* eval_bounded(start, &out, limit, max_mass) on the expression built last
CallEvalBounded ==
    /\ call.fn = "none"
    /\ \E limit \in 0 .. MaxEvalSteps, max_mass \in 0 .. MaxMassLimit :
          LET start == Len(GC.slots) - 1
              r == eval_bounded(Heap, start, limit, max_mass)
          IN  /\ GC' = GCOf(r.h)
              /\ global_counter' = r.h.ctr
              /\ call' = [NoCall EXCEPT !.fn = "eval_bounded", !.body = start,
                                        !.limit = limit, !.max_mass = max_mass,
                                        !.res = r.res, !.out = r.out]
    /\ UNCHANGED <<ctrl_c, labels>>
    /\ UNCHANGED <<arg_order, bindings, active_grid, gas_pool, gas, aborted,
                   last_gc>>

SpecEval == InitEval /\ [][CallEvalBounded]_vars

-----------------------------------------------------------------------------
(* The single-step reducer: eval1 on the expression built last and then on *)
(* what it returned, as the loop of run_eval in test_lamb.c calls it, until *)
(* it fails or returns its input.                                          *)

CallEval1 ==
    /\ call.fn \in {"none", "eval1"}
    /\ call.fn = "eval1" => (call.res = "true" /\ call.out # call.body)
    /\ call.count < MaxEvalSteps
    /\ Len(GC.slots) > 0
    /\ LET expr == IF call.fn = "none" THEN Len(GC.slots) - 1 ELSE call.out
           Done(r) ==
               /\ GC' = GCOf(r.h)
               /\ global_counter' = r.h.ctr
               /\ call' = [call EXCEPT !.fn = "eval1", !.body = expr,
                                       !.res = IF r.ok THEN "true" ELSE "false",
                                       !.out = r.idx, !.count = @ + 1]
       IN  Done(eval1(Heap, expr))
    /\ UNCHANGED <<ctrl_c, labels>>
    /\ UNCHANGED <<arg_order, bindings, active_grid, gas_pool, gas, aborted,
                   last_gc>>

SpecStep == InitEval /\ [][CallEval1]_vars

-----------------------------------------------------------------------------
(* The lamb_grid program: the REPL's binding lines and expression lines    *)
(* and the :grid command, whose loop calls grid_step.  A handler in which  *)
(* an assert() fails ends the process: aborted names the assert and the    *)
(* other variables keep the values they had when the handler began.        *)

\* REPL lines are entered before the :grid command and outside the :gas
\* command, while the arena has fewer than MaxSlots slots
MaxSlots == 4

\* the :grid loop is followed for MaxGridSteps steps
MaxGridSteps == 4

BindNames == {"a"}

ReplPrograms == {F("x", V("x")), A(V("a"), V("a"))}

\* <w> <h> of the :grid command: a single cell, whose four neighbours are
\* the cell itself, when the REPL lines are explored with it, and two cells
\* when the command is explored alone
ReplGridSizes == {<<1, 1>>}

GridSizes == {<<2, 1>>}

\* [depth] of the :grid command
GridDepths == {1}

\* [steps] of the :grid command
GridEvalSteps == {1, 3}

Init ==
    /\ arg_order \in {"LR", "RL"}
    /\ GC = GCOf(EmptyHeap)
    /\ global_counter = 0
    /\ Idle

\* name = expr
Bind ==
    /\ aborted = ""
    /\ active_grid.cells = <<>>
    /\ ~gas.running
    /\ Len(GC.slots) < MaxSlots
    /\ \E name \in BindNames, t \in ReplPrograms :
          LET Done(p) ==
                  /\ GC' = GCOf(p.h)
                  /\ global_counter' = p.h.ctr
                  /\ bindings' = create_binding(bindings, symbol(name), p.idx)
                  /\ call' = [call EXCEPT !.fn = "bind", !.res = "",
                                          !.out = p.idx]
          IN  Done(parse(Heap, t))
    /\ UNCHANGED <<ctrl_c, labels>>
    /\ UNCHANGED <<arg_order, active_grid, gas_pool, gas, aborted, last_gc>>

\* whether replace(name, expr, arg) reads the slot of arg: it does so in
\* is_var_free_there, at a Fun that binds another name
RECURSIVE ReplaceReadsArg(_, _, _)
ReplaceReadsArg(h, name, expr) ==
    LET e == Slot(h, expr)
    IN  CASE e.kind = "FUN" -> ~symbol_eq(e.sym, name)
          [] e.kind = "APP" -> \/ ReplaceReadsArg(h, name, e.lhs)
                               \/ ReplaceReadsArg(h, name, e.rhs)
          [] OTHER -> FALSE

\* for (i = bindings.count; i > 0; --i)
\*     expr = replace(bindings.items[i-1].name, expr, bindings.items[i-1].body)
RECURSIVE apply_bindings(_, _, _, _)
apply_bindings(h, expr, bs, i) ==
    IF i = 0 \/ Failed(h) THEN [h |-> h, idx |-> expr]
    ELSE IF ~Usable(h, bs[i].body) /\ ReplaceReadsArg(h, bs[i].name, expr)
    THEN [h |-> Fault(h), idx |-> expr]
    ELSE LET next(r) == apply_bindings(r.h, r.idx, bs, i - 1)
         IN  next(replace(h, bs[i].name, expr, bs[i].body))

\* the REPL's reduction loop: gc(expr, bindings), then eval1, until a fixed
\* point, an error, or ctrl_c, which is seen before iteration k + 1.  The
\* loop resets ctrl_c at its start, and the handler may set it at any time
\* after that.
RECURSIVE repl_eval_loop(_, _, _, _, _, _)
repl_eval_loop(h, expr, bs, g, seen, k) ==
    IF k = 0 THEN [h |-> h, seen |-> seen, idx |-> expr]
    ELSE LET step(n, s1) ==
                 IF ~n.ok \/ n.idx = expr
                 THEN [h |-> n.h, seen |-> s1, idx |-> expr]
                 ELSE repl_eval_loop(n.h, n.idx, bs, g, s1, k - 1)
             collected(h1) ==
                 IF Failed(h1) THEN [h |-> h1, seen |-> seen, idx |-> expr]
                 ELSE step(eval1(h1, expr),
                           GcCall(h1, expr, bs, g.cells, <<>>))
         IN  collected(gc(h, expr, bs, g))

\* an expression line
ReplEval ==
    /\ aborted = ""
    /\ active_grid.cells = <<>>
    /\ Len(GC.slots) < MaxSlots
    /\ \E t \in ReplPrograms, k \in 0 .. MaxEvalSteps :
          LET Done(r) ==
                  /\ aborted' = r.h.fault
                  /\ IF Failed(r.h)
                     THEN UNCHANGED <<GC, global_counter, last_gc, call>>
                     ELSE /\ GC' = GCOf(r.h)
                          /\ global_counter' = r.h.ctr
                          /\ last_gc' = r.seen
                          /\ call' = [call EXCEPT !.fn = "eval", !.res = "",
                                                  !.out = r.idx]
              reduce(b) ==
                  IF Failed(b.h)
                  THEN [h |-> b.h, seen |-> last_gc, idx |-> b.idx]
                  ELSE repl_eval_loop(b.h, b.idx, bindings, active_grid,
                                      last_gc, k)
              substitute(p) ==
                  apply_bindings(p.h, p.idx, bindings, Len(bindings))
          IN  Done(reduce(substitute(parse(Heap, t))))
    /\ ctrl_c' \in {0, 1}
    /\ UNCHANGED labels
    /\ UNCHANGED <<arg_order, bindings, active_grid, gas_pool, gas>>

\* :grid <w> <h> <density%> <iterations> [depth] [steps], up to its loop:
\* grid_init and grid_seed.  count = w * h * density / 100 is any number up
\* to w * h.  call keeps the command's steps argument, the depth and the
\* population that was placed.
GridStart(sizes) ==
    /\ aborted = ""
    /\ active_grid.cells = <<>>
    /\ \E wh \in sizes, depth \in GridDepths, max_steps \in GridEvalSteps :
       \E count \in 0 .. wh[1] * wh[2] :
       \E s \in grid_seed(Heap, grid_init(wh[1], wh[2]), count, depth) :
          /\ GC' = GCOf(s.h)
          /\ global_counter' = s.h.ctr
          /\ active_grid' = s.g
          /\ call' = [call EXCEPT !.fn = "grid", !.limit = max_steps,
                                  !.max_mass = GridMaxMass, !.res = "",
                                  !.count = s.placed, !.depth = depth]
    /\ ctrl_c' = 0
    /\ UNCHANGED labels
    /\ UNCHANGED <<arg_order, bindings, gas_pool, gas, aborted, last_gc>>

\* one iteration of the :grid loop: grid_step(&active_grid, bindings,
\* max_steps, 2000)
GridStep ==
    /\ aborted = ""
    /\ ctrl_c = 0
    /\ active_grid.cells # <<>>
    /\ active_grid.steps < MaxGridSteps
    /\ \E r \in grid_step(Heap, active_grid, bindings, last_gc, call.limit,
                          call.max_mass) :
          /\ aborted' = r.h.fault
          /\ IF Failed(r.h)
             THEN UNCHANGED <<GC, global_counter, bindings, active_grid,
                              last_gc, call>>
             ELSE /\ GC' = GCOf(r.h)
                  /\ global_counter' = r.h.ctr
                  /\ bindings' = r.bs
                  /\ active_grid' = r.g
                  /\ last_gc' = r.seen
                  /\ call' = [call EXCEPT !.fn = "grid_step", !.res = r.did]
    /\ UNCHANGED <<ctrl_c, labels>>
    /\ UNCHANGED <<arg_order, gas_pool, gas>>

Next == Bind \/ ReplEval \/ GridStart(ReplGridSizes) \/ GridStep

Spec == Init /\ [][Next]_vars

\* the :grid command entered first, on the larger grid
NextGrid == GridStart(GridSizes) \/ GridStep

SpecGrid == Init /\ [][NextGrid]_vars

-----------------------------------------------------------------------------
(* Harness for the generator: generate_rich_combinator(0, depth, NULL, 0)  *)
(* is called, as the seeding loops and the cosmic ray do, for every depth  *)
(* up to MaxGenDepth, while the arena has fewer than MaxSlots slots.       *)

MaxGenDepth == 3

CallGenerate ==
    /\ Len(GC.slots) < MaxSlots
    /\ \E depth \in 0 .. MaxGenDepth :
       \E e \in generate_rich_combinator(Heap, 0, depth, <<>>) :
          /\ GC' = GCOf(e.h)
          /\ global_counter' = e.h.ctr
          /\ call' = [NoCall EXCEPT !.fn = "generate_rich_combinator",
                                    !.depth = depth, !.out = e.idx]
    /\ UNCHANGED <<ctrl_c, labels>>
    /\ UNCHANGED <<arg_order, bindings, active_grid, gas_pool, gas, aborted,
                   last_gc>>

SpecGen == Init /\ [][CallGenerate]_vars

-----------------------------------------------------------------------------
(* The lamb_gas program: binding lines and the :gas command, which seeds   *)
(* gas_pool, runs its reaction loop and exports the pool to the bindings.  *)

\* <pool_size> of the :gas command
GasPoolSizes == {1, 2}

\* <iterations> of the :gas command; ctrl_c ends a run earlier
MaxGasIterations == 2

\* [depth] of the :gas command
GasDepths == {2}

\* [steps] of the :gas command
GasEvalSteps == {1, 3}

\* the :gas loop collects when it % 50 == 0, the first iteration included;
\* the model collects in every iteration
GasGcPeriod == 1

\* the seeding loop tries up to 10 times to avoid the identity; the model
\* tries twice
GasSeedRetries == 2

\* max_mass of the :gas command's eval_bounded calls
GasMaxMass == 5000

\* the seeding loop of :gas from S, a set of [h, pool]
RECURSIVE gas_seed(_, _, _, _)
gas_seed(S, i, pool_size, depth) ==
    IF ~(i < pool_size) THEN S
    ELSE gas_seed(UNION {{[h |-> e.h, pool |-> Append(s.pool, e.idx)] :
                            e \in generate_non_identity(s.h, depth, 0,
                                                        GasSeedRetries)} :
                         s \in S},
                  i + 1, pool_size, depth)

\* the body of the :gas loop after the ctrl_c test: the set of
\* [h, pool, gas, seen] it can leave from heap h
gas_iteration(h, pool, gs, bs, seen, depth, max_steps) ==
    LET count == Len(pool)
        react(idx_a, idx_b) ==
            LET a == app(h, pool[idx_a + 1], pool[idx_b + 1])
                r == eval_bounded(a.h, a.idx, max_steps, GasMaxMass)
            IN  CASE r.res = "EVAL_DONE" ->
                       {[h |-> r.h,
                         pool |-> [pool EXCEPT ![target_idx + 1] = r.out],
                         gas |-> [gs EXCEPT !.converged = @ + 1]] :
                        target_idx \in 0 .. count - 1}
                  [] r.res = "EVAL_LIMIT" ->
                       {[h |-> e.h,
                         pool |-> [pool EXCEPT ![idx_a + 1] = e.idx],
                         gas |-> [gs EXCEPT !.diverged = @ + 1]] :
                        e \in generate_rich_combinator(r.h, 0, depth, <<>>)}
                  [] OTHER ->
                       UNION {{[h |-> e2.h,
                                pool |-> [[pool EXCEPT ![idx_a + 1] = e1.idx]
                                          EXCEPT ![idx_b + 1] = e2.idx],
                                gas |-> [gs EXCEPT !.errors = @ + 1]] :
                               e2 \in generate_rich_combinator(e1.h, 0, depth,
                                                               <<>>)} :
                              e1 \in generate_rich_combinator(r.h, 0, depth,
                                                              <<>>)}
        collect(o) ==
            IF gs.it % GasGcPeriod = 0 /\ ~Failed(o.h)
            THEN LET d  == var(o.h, symbol("_dummy"))
                     h1 == gas_gc(d.h, d.idx, bs, o.pool)
                 IN  [h |-> h1, pool |-> o.pool,
                      gas |-> [o.gas EXCEPT !.it = @ + 1],
                      seen |-> IF Failed(h1) THEN seen
                               ELSE GcCall(h1, d.idx, bs, <<>>, o.pool)]
            ELSE [h |-> o.h, pool |-> o.pool,
                  gas |-> [o.gas EXCEPT !.it = @ + 1], seen |-> seen]
    IN  {collect(o) : o \in UNION {react(idx_a, idx_b) :
                                     idx_a \in 0 .. count - 1,
                                     idx_b \in 0 .. count - 1}}

\* :gas <pool_size> <iterations> [depth] [steps], up to its loop; no
\* binding is named soup_*, so the pool is seeded.  A run with [steps] = 1
\* is followed for a pool of one expression.
GasStart ==
    /\ aborted = ""
    /\ ~gas.running
    /\ gas.iterations = 0
    /\ \E pool_size \in GasPoolSizes, iterations \in {MaxGasIterations},
          depth \in GasDepths :
       \E max_steps \in {n \in GasEvalSteps : n > 1 \/ pool_size = 1} :
       \E s \in gas_seed({[h |-> Heap, pool |-> <<>>]}, 0, pool_size, depth) :
          /\ GC' = GCOf(s.h)
          /\ global_counter' = s.h.ctr
          /\ gas_pool' = s.pool
          /\ gas' = [NoGas EXCEPT !.iterations = iterations,
                                  !.running = TRUE]
          /\ call' = [call EXCEPT !.fn = "gas", !.limit = max_steps,
                                  !.max_mass = GasMaxMass, !.res = "",
                                  !.count = pool_size, !.depth = depth]
    /\ UNCHANGED <<ctrl_c, labels>>
    /\ UNCHANGED <<arg_order, bindings, active_grid, aborted, last_gc>>

\* an iteration of the :gas loop that does not test ctrl_c
GasIter_no_poll ==
    /\ aborted = ""
    /\ gas.running
    /\ gas.it < gas.iterations
    /\ \E r \in gas_iteration(Heap, gas_pool, gas, bindings, last_gc,
                              call.depth, call.limit) :
          /\ aborted' = r.h.fault
          /\ IF Failed(r.h)
             THEN UNCHANGED <<GC, global_counter, gas_pool, gas, last_gc,
                              call>>
             ELSE /\ GC' = GCOf(r.h)
                  /\ global_counter' = r.h.ctr
                  /\ gas_pool' = r.pool
                  /\ gas' = r.gas
                  /\ last_gc' = r.seen
                  /\ call' = [call EXCEPT !.fn = "gas_iteration"]
    /\ UNCHANGED <<ctrl_c, labels>>
    /\ UNCHANGED <<arg_order, bindings, active_grid>>

\* one iteration of the :gas loop
GasIter ==
    /\ aborted = ""
    /\ ctrl_c = 0
    /\ gas.running
    /\ gas.it < gas.iterations
    /\ \E r \in gas_iteration(Heap, gas_pool, gas, bindings, last_gc,
                              call.depth, call.limit) :
          /\ aborted' = r.h.fault
          /\ IF Failed(r.h)
             THEN UNCHANGED <<GC, global_counter, gas_pool, gas, last_gc,
                              call>>
             ELSE /\ GC' = GCOf(r.h)
                  /\ global_counter' = r.h.ctr
                  /\ gas_pool' = r.pool
                  /\ gas' = r.gas
                  /\ last_gc' = r.seen
                  /\ call' = [call EXCEPT !.fn = "gas_iteration"]
    /\ UNCHANGED <<ctrl_c, labels>>
    /\ UNCHANGED <<arg_order, bindings, active_grid>>

RECURSIVE export_pool(_, _, _)
export_pool(bs, pool, i) ==
    IF i > Len(pool) THEN bs
    ELSE export_pool(create_binding(bs, symbol("specimen_" \o ToString(i - 1)),
                                    pool[i]),
                     pool, i + 1)

\* strncmp(name, "specimen_", 9) == 0, over the names the model uses
IsSpecimen(name) ==
    \E i \in 0 .. 9 : name.label = "specimen_" \o ToString(i)

\* the end of the :gas command, after the last iteration or when ctrl_c is
\* seen at the top of the loop: the specimen_* bindings are replaced by the
\* pool
GasEnd ==
    /\ aborted = ""
    /\ gas.running
    /\ ctrl_c = 1 \/ ~(gas.it < gas.iterations)
    /\ gas' = [gas EXCEPT !.running = FALSE]
    /\ bindings' = export_pool(SelectSeq(bindings,
                                         LAMBDA b : ~IsSpecimen(b.name)),
                               gas_pool, 1)
    /\ call' = [call EXCEPT !.fn = "gas_end"]
    /\ UNCHANGED <<ctrl_c, labels>>
    /\ UNCHANGED <<GC, global_counter, arg_order, active_grid, gas_pool,
                   aborted, last_gc>>

\* one binding line is entered before the :gas command
NextGas == (Bind /\ bindings = <<>>) \/ GasStart \/ GasIter \/ GasEnd

SpecGas == Init /\ [][NextGas]_vars

-----------------------------------------------------------------------------
(* The reactors on expressions that hold a Magic.  The :gas command takes  *)
(* its pool from the bindings named soup_* when there are any; grid_step   *)
(* is given a grid whose cells hold the bound expressions.                 *)

SoupNames == {"soup_0", "soup_1"}

SoupPrograms == {M("foo"), A(M("foo"), V("x")), F("x", V("x"))}

\* strncmp(name, "soup_", 5) == 0, over the names the model uses
IsSoup(name) == name.label \in SoupNames

\* soup_<k> = expr
SoupBind ==
    /\ aborted = ""
    /\ active_grid.cells = <<>>
    /\ ~gas.running
    /\ gas.iterations = 0
    /\ Len(GC.slots) < MaxSlots
    /\ \E name \in SoupNames, t \in SoupPrograms :
          LET Done(p) ==
                  /\ GC' = GCOf(p.h)
                  /\ global_counter' = p.h.ctr
                  /\ bindings' = create_binding(bindings, symbol(name), p.idx)
                  /\ call' = [call EXCEPT !.fn = "bind", !.res = "",
                                          !.out = p.idx]
          IN  Done(parse(Heap, t))
    /\ UNCHANGED <<ctrl_c, labels>>
    /\ UNCHANGED <<arg_order, active_grid, gas_pool, gas, aborted, last_gc>>

\* :gas <pool_size> <iterations> [depth] [steps], up to its loop, when a
\* binding is named soup_*: the pool is the bodies of those bindings and
\* pool_size becomes their number
GasResume ==
    /\ aborted = ""
    /\ active_grid.cells = <<>>
    /\ ~gas.running
    /\ gas.iterations = 0
    /\ \E i \in 1 .. Len(bindings) : IsSoup(bindings[i].name)
    /\ \E iterations \in {MaxGasIterations}, depth \in GasDepths,
          max_steps \in GasEvalSteps :
          LET soup == SelectSeq(bindings, LAMBDA b : IsSoup(b.name))
          IN  /\ gas_pool' = BodiesOf(soup)
              /\ gas' = [NoGas EXCEPT !.iterations = iterations,
                                      !.running = TRUE]
              /\ call' = [call EXCEPT !.fn = "gas", !.limit = max_steps,
                                      !.max_mass = GasMaxMass, !.res = "",
                                      !.count = Len(soup), !.depth = depth]
    /\ UNCHANGED <<ctrl_c, labels>>
    /\ UNCHANGED <<GC, global_counter, arg_order, bindings, active_grid,
                   aborted, last_gc>>

\* a 2 x 1 grid whose cells hold the first and the last bound expression,
\* and the eval_steps and max_mass grid_step will be called with
GridFill ==
    /\ aborted = ""
    /\ active_grid.cells = <<>>
    /\ ~gas.running
    /\ gas.iterations = 0
    /\ bindings # <<>>
    /\ \E wh \in GridSizes, max_steps \in GridEvalSteps :
          /\ active_grid' =
                 [grid_init(wh[1], wh[2]) EXCEPT
                    !.cells = [i \in 1 .. wh[1] * wh[2] |->
                                 NewCell(IF i = 1 THEN bindings[1].body
                                         ELSE bindings[Len(bindings)].body)]]
          /\ call' = [call EXCEPT !.fn = "grid", !.limit = max_steps,
                                  !.max_mass = GridMaxMass, !.res = "",
                                  !.count = wh[1] * wh[2], !.depth = 0]
    /\ UNCHANGED <<ctrl_c, labels>>
    /\ UNCHANGED <<GC, global_counter, arg_order, bindings, gas_pool, gas,
                   aborted, last_gc>>

\* the first iteration of the :gas loop and the first grid_step are followed
NextMagic ==
    \/ SoupBind
    \/ GasResume
    \/ (gas.it = 0 /\ GasIter)
    \/ GridFill
    \/ (active_grid.steps = 0 /\ GridStep)

SpecMagic == Init /\ [][NextMagic]_vars

-----------------------------------------------------------------------------
(* One interaction of the grid: the movement-or-reaction part of           *)
(* grid_step's loop body for one occupied cell and one direction, on a     *)
(* seeded grid or on a grid filled with bound expressions.                 *)

InteractSizes == {<<1, 1>>, <<2, 1>>, <<1, 2>>, <<2, 2>>}

\* the cell the direction leads to: 0:N, 1:E, 2:S, 3:W, wrapped
target_of(g, curr_idx, dir) ==
    LET cx == curr_idx % g.width
        cy == curr_idx \div g.width
        tx == CASE dir = 1 -> cx + 1 [] dir = 3 -> cx - 1 [] OTHER -> cx
        ty == CASE dir = 0 -> cy - 1 [] dir = 2 -> cy + 1 [] OTHER -> cy
    IN  grid_idx(g, tx, ty)

GridPhysics ==
    /\ aborted = ""
    /\ call.fn = "grid"
    /\ active_grid.cells # <<>>
    /\ \E curr_idx \in 0 .. active_grid.width * active_grid.height - 1,
          dir \in 0 .. 3 :
          /\ CellAt(active_grid, curr_idx).occupied
          /\ LET r == interact(Heap, active_grid, curr_idx, dir, call.limit,
                               call.max_mass)
             IN  /\ GC' = GCOf(r.h)
                 /\ global_counter' = r.h.ctr
                 /\ active_grid' = r.g
                 /\ call' = [call EXCEPT
                               !.fn = "interact", !.body = curr_idx,
                               !.arg = dir,
                               !.res = IF r.g.movements > active_grid.movements
                                       THEN "moved"
                                       ELSE IF r.g.reactions_success >
                                                   active_grid.reactions_success
                                       THEN "done" ELSE "diverged"]
    /\ UNCHANGED <<ctrl_c, labels>>
    /\ UNCHANGED <<arg_order, bindings, gas_pool, gas, aborted, last_gc>>

NextInteract ==
    \/ (bindings = <<>> /\ GridStart(InteractSizes))
    \/ SoupBind
    \/ GridFill
    \/ GridPhysics

SpecInteract == Init /\ [][NextInteract]_vars

-----------------------------------------------------------------------------
(* grid_seed on a grid grid_init has just emptied, for every count from 0  *)
(* to the number of cells; call.arg is the count asked for and call.count  *)
(* the number placed.                                                      *)

GridSeed ==
    /\ call.fn = "none"
    /\ \E wh \in InteractSizes, depth \in GridDepths :
       \E count \in 0 .. wh[1] * wh[2] :
       \E s \in grid_seed(Heap, grid_init(wh[1], wh[2]), count, depth) :
          /\ GC' = GCOf(s.h)
          /\ global_counter' = s.h.ctr
          /\ active_grid' = s.g
          /\ call' = [call EXCEPT !.fn = "grid_seed", !.arg = count,
                                  !.count = s.placed, !.depth = depth]
    /\ UNCHANGED <<ctrl_c, labels>>
    /\ UNCHANGED <<arg_order, bindings, gas_pool, gas, aborted, last_gc>>

SpecSeed == Init /\ [][GridSeed]_vars

-----------------------------------------------------------------------------
(* Cancellation.  SIGINT runs ctrl_c_handler at any time.  The three loops *)
(* poll ctrl_c before each iteration: the REPL's reduction loop and the    *)
(* :grid loop reset it first, the :gas loop does not.  One command is      *)
(* followed from the first prompt, one loop iteration per action.          *)

\* (\x.\y.x) a b, and the diverging term
CancelPrograms == {TestPrograms[2], TestPrograms[9]}

EvalRunning == call.fn = "eval" /\ call.res = "running"

GridRunning == call.fn \in {"grid", "grid_step"}

Running == aborted = "" /\ (EvalRunning \/ GridRunning \/ gas.running)

AtPrompt == aborted = "" /\ ~EvalRunning /\ ~GridRunning /\ ~gas.running

ctrl_c_handler ==
    /\ ctrl_c' = 1
    /\ UNCHANGED labels
    /\ UNCHANGED <<GC, global_counter, arg_order, bindings, active_grid,
                   gas_pool, gas, aborted, last_gc, call>>

\* an expression line, up to its loop
EvalStart ==
    /\ call.fn = "none"
    /\ \E t \in CancelPrograms :
          LET Done(e) ==
                  /\ GC' = GCOf(e.h)
                  /\ global_counter' = e.h.ctr
                  /\ call' = [NoCall EXCEPT !.fn = "eval", !.res = "running",
                                            !.out = e.idx]
              substitute(p) ==
                  apply_bindings(p.h, p.idx, bindings, Len(bindings))
          IN  Done(substitute(parse(Heap, t)))
    /\ ctrl_c' = 0
    /\ UNCHANGED labels
    /\ UNCHANGED <<arg_order, bindings, active_grid, gas_pool, gas, aborted,
                   last_gc>>

\* one iteration of the reduction loop after its poll: gc(expr, bindings)
\* and eval1; call.count counts the eval1 calls
EvalStep ==
    /\ aborted = ""
    /\ EvalRunning
    /\ ctrl_c = 0
    /\ call.count < MaxEvalSteps
    /\ LET step(h1, n) ==
               /\ aborted' = n.h.fault
               /\ IF Failed(n.h)
                  THEN UNCHANGED <<GC, global_counter, last_gc, call>>
                  ELSE /\ GC' = GCOf(n.h)
                       /\ global_counter' = n.h.ctr
                       /\ last_gc' = GcCall(h1, call.out, bindings, <<>>,
                                            gas_pool)
                       /\ call' = [call EXCEPT
                                     !.count = @ + 1,
                                     !.out = n.idx,
                                     !.res = IF ~n.ok THEN "error"
                                             ELSE IF n.idx = call.out
                                             THEN "done"
                                             ELSE "running"]
           collected(h1) ==
               IF Failed(h1) THEN step(h1, [h |-> h1, idx |-> call.out,
                                            ok |-> FALSE])
               ELSE step(h1, eval1(h1, call.out))
       IN  collected(gas_gc(Heap, call.out, bindings, gas_pool))
    /\ UNCHANGED <<arg_order, bindings, active_grid, gas_pool, gas, ctrl_c, labels>>

\* the poll of the reduction loop sees ctrl_c: goto again
EvalCancel ==
    /\ aborted = ""
    /\ EvalRunning
    /\ ctrl_c = 1
    /\ call' = [call EXCEPT !.res = "canceled"]
    /\ UNCHANGED <<GC, global_counter, arg_order, bindings, active_grid,
                   gas_pool, gas, aborted, ctrl_c, labels, last_gc>>

\* the :grid loop goes on: it < iterations && !ctrl_c, and the grid was not
\* found empty after the step before
GridContinues ==
    /\ active_grid.steps < MaxGridSteps
    /\ ctrl_c = 0
    /\ active_grid.steps = 0 \/ grid_population(active_grid) > 0

\* the end of the :grid command
GridEnd ==
    /\ aborted = ""
    /\ GridRunning
    /\ ~GridContinues
    /\ call' = [call EXCEPT !.fn = "grid_end"]
    /\ UNCHANGED <<GC, global_counter, arg_order, bindings, active_grid,
                   gas_pool, gas, aborted, ctrl_c, labels, last_gc>>

NextCancelled ==
    \/ EvalStart
    \/ EvalStep
    \/ EvalCancel
    \/ (call.fn = "none" /\ GasStart)
    \/ GasIter
    \/ GasEnd
    \/ (call.fn = "none" /\ GridStart(ReplGridSizes))
    \/ (GridRunning /\ GridContinues /\ GridStep)
    \/ GridEnd

NextCancel == ctrl_c_handler \/ NextCancelled

\* the process keeps running: a loop whose poll ends it is left
SpecCancel ==
    /\ Init
    /\ [][NextCancel]_vars
    /\ WF_vars(EvalCancel)
    /\ WF_vars(GasEnd)
    /\ WF_vars(GridEnd)

\* Ctrl-C arrives only while the REPL waits at its prompt: fgets returns
\* with EINTR, the prompt is printed again and ctrl_c stays set.  No run
\* of this specification has a Ctrl-C delivered while a command runs.
NextPrompt ==
    \/ (AtPrompt /\ ctrl_c_handler)
    \/ EvalStart
    \/ EvalStep
    \/ (call.fn = "none" /\ GasStart)
    \/ GasIter
    \/ GasEnd
    \/ (call.fn = "none" /\ GridStart(ReplGridSizes))
    \/ (GridRunning /\ GridContinues /\ GridStep)
    \/ GridEnd

SpecPrompt == Init /\ [][NextPrompt]_vars

-----------------------------------------------------------------------------
(* Pretty-printer.  The output is the sequence of the lexemes written, and *)
(* Text joins them into the string.                                        *)

RECURSIVE expr_display(_, _)

RECURSIVE display_params(_, _)
\* the while loop of the EXPR_FUN case: one "p." or "p:tag." per nested Fun
display_params(h, expr) ==
    LET e == Slot(h, expr)
    IN  IF e.kind = "FUN"
        THEN (IF e.sym.tag # 0
              THEN <<e.sym.label, ":", ToString(e.sym.tag), ".">>
              ELSE <<e.sym.label, ".">>) \o display_params(h, e.body)
        ELSE expr_display(h, expr)

expr_display(h, expr) ==
    LET e == Slot(h, expr)
    IN  CASE e.kind = "VAR" ->
                IF e.sym.tag # 0 THEN <<e.sym.label, ":", ToString(e.sym.tag)>>
                                 ELSE <<e.sym.label>>
          [] e.kind = "FUN" -> <<"\\">> \o display_params(h, expr)
          [] e.kind = "APP" ->
                LET lhs_paren == Slot(h, e.lhs).kind = "FUN"
                    rhs_paren == Slot(h, e.rhs).kind \notin {"VAR", "MAG"}
                IN  (IF lhs_paren THEN <<"(">> ELSE <<>>)
                    \o expr_display(h, e.lhs)
                    \o (IF lhs_paren THEN <<")">> ELSE <<>>)
                    \o <<" ">>
                    \o (IF rhs_paren THEN <<"(">> ELSE <<>>)
                    \o expr_display(h, e.rhs)
                    \o (IF rhs_paren THEN <<")">> ELSE <<>>)
          [] e.kind = "MAG" -> <<"#", e.sym.label>>

RECURSIVE Text(_)
Text(lexemes) ==
    IF lexemes = <<>> THEN "" ELSE Head(lexemes) \o Text(Tail(lexemes))

expr_to_string(h, expr) == Text(expr_display(h, expr))

-----------------------------------------------------------------------------
(* Lexer and parser.  The input is the sequence of the characters of the   *)
(* text; a Cur is the number of characters consumed.                       *)

\* the spellings of the lexemes the printer writes in the model
Spellings ==
    {<<"x">>, <<"y">>, <<"0">>, <<"1">>, <<"2">>, <<"3">>,
     <<"t", "r", "a", "c", "e">>, <<"v", "o", "i", "d">>, <<"f", "o", "o">>,
     <<":">>, <<".">>, <<"\\">>, <<"(">>, <<")">>, <<" ">>, <<"#">>}

\* the characters of a lexeme
Chars(s) == CHOOSE q \in Spellings : Text(q) = s

\* the characters of the text a sequence of lexemes makes
RECURSIVE Characters(_)
Characters(lexemes) ==
    IF lexemes = <<>> THEN <<>>
    ELSE Chars(Head(lexemes)) \o Characters(Tail(lexemes))

\* isalnum(x) || x == '_', over the characters of the model
issymbol(x) ==
    x \in {"x", "y", "t", "r", "a", "b", "c", "e", "v", "o", "i", "d", "f",
           "_", "0", "1", "2", "3"}

\* lexer_curr_char: 0 at the end of the content, written ""
lexer_curr_char(cs, pos) == IF pos >= Len(cs) THEN "" ELSE cs[pos + 1]

RECURSIVE lexer_trim_left(_, _)
lexer_trim_left(cs, pos) ==
    IF lexer_curr_char(cs, pos) = " " THEN lexer_trim_left(cs, pos + 1)
    ELSE pos

\* the end of the run of symbol characters that starts at pos
RECURSIVE symbol_run(_, _)
symbol_run(cs, pos) ==
    IF issymbol(lexer_curr_char(cs, pos)) THEN symbol_run(cs, pos + 1)
    ELSE pos

Token(ok, kind, str, pos) ==
    [ok |-> ok, token |-> kind, string |-> str, pos |-> pos]

\* lexer_next after lexer_trim_left: start is the position of the token
lexer_token(cs, start) ==
    LET x == lexer_curr_char(cs, start)
    IN  CASE x = ""   -> Token(TRUE, "TOKEN_END", "", start)
          [] x = "("  -> Token(TRUE, "TOKEN_OPAREN", "", start + 1)
          [] x = ")"  -> Token(TRUE, "TOKEN_CPAREN", "", start + 1)
          [] x = "\\" -> Token(TRUE, "TOKEN_LAMBDA", "", start + 1)
          [] x = "."  -> Token(TRUE, "TOKEN_DOT", "", start + 1)
          [] x = ":"  -> Token(TRUE, "TOKEN_COLON", "", start + 1)
          [] x = ";"  -> Token(TRUE, "TOKEN_SEMICOLON", "", start + 1)
          [] x = "="  -> Token(TRUE, "TOKEN_EQUALS", "", start + 1)
          [] x = "#"  ->
                Token(TRUE, "TOKEN_MAGIC",
                      Text(SubSeq(cs, start + 2, symbol_run(cs, start + 1))),
                      symbol_run(cs, start + 1))
          [] issymbol(x) ->
                Token(TRUE, "TOKEN_NAME",
                      Text(SubSeq(cs, start + 1, symbol_run(cs, start + 1))),
                      symbol_run(cs, start + 1))
          [] OTHER -> Token(FALSE, "TOKEN_INVALID", "", start + 1)

\* lexer_next; the printer writes no "//" comment, so none is skipped
lexer_next(cs, pos) == lexer_token(cs, lexer_trim_left(cs, pos))

\* lexer_peek: the token without the move
lexer_peek(cs, pos) == [lexer_next(cs, pos) EXCEPT !.pos = pos]

\* lexer_expect
lexer_expect(cs, pos, expected) ==
    [lexer_next(cs, pos) EXCEPT !.ok = @ /\ lexer_next(cs, pos).token = expected]

\* the parse functions return [ok, h, idx, pos]: the bool result, the arena,
\* the expression stored through expr and the lexer's position
Parsed(ok, h, idx, pos) == [ok |-> ok, h |-> h, idx |-> idx, pos |-> pos]

\* a constructor's result as the result of a parse function that stops at pos
Built(r, pos) == Parsed(TRUE, r.h, r.idx, pos)

RECURSIVE parse_fun(_, _, _)
RECURSIVE parse_primary(_, _, _)
RECURSIVE parse_expr(_, _, _)

\* parse_fun after the parameter and the dot: the two tokens a and b after
\* the dot decide between a nested parse_fun and parse_expr
parse_fun_body(h, cs, arg, dot, a, b) ==
    LET make(body) ==
            IF ~body.ok THEN body
            ELSE Built(fun(body.h, arg, body.idx), body.pos)
    IN  IF ~dot.ok \/ ~a.ok \/ ~b.ok THEN Parsed(FALSE, h, 0, dot.pos)
        ELSE IF a.token = "TOKEN_NAME" /\ b.token = "TOKEN_DOT"
        THEN make(parse_fun(h, cs, dot.pos))
        ELSE make(parse_expr(h, cs, dot.pos))

parse_fun(h, cs, pos) ==
    LET after_dot(name, dot) ==
            parse_fun_body(h, cs, symbol(name.string), dot,
                           lexer_next(cs, dot.pos),
                           lexer_next(cs, lexer_next(cs, dot.pos).pos))
        after_name(name) ==
            IF ~name.ok THEN Parsed(FALSE, h, 0, name.pos)
            ELSE after_dot(name, lexer_expect(cs, name.pos, "TOKEN_DOT"))
    IN  after_name(lexer_expect(cs, pos, "TOKEN_NAME"))

\* case TOKEN_OPAREN of parse_primary, after parse_expr
parse_close(cs, r, close) ==
    IF ~r.ok THEN r ELSE Parsed(close.ok, r.h, r.idx, close.pos)

parse_primary(h, cs, pos) ==
    LET inner(r) == parse_close(cs, r, lexer_expect(cs, r.pos, "TOKEN_CPAREN"))
        on(t) ==
            IF ~t.ok THEN Parsed(FALSE, h, 0, t.pos)
            ELSE CASE t.token = "TOKEN_OPAREN" -> inner(parse_expr(h, cs, t.pos))
                   [] t.token = "TOKEN_LAMBDA" -> parse_fun(h, cs, t.pos)
                   [] t.token = "TOKEN_MAGIC" -> Built(magic(h, t.string), t.pos)
                   [] t.token = "TOKEN_NAME" ->
                         Built(var(h, symbol(t.string)), t.pos)
                   [] OTHER -> Parsed(FALSE, h, 0, t.pos)
    IN  on(lexer_next(cs, pos))

\* parse_operands with the operands nested to the right
RECURSIVE parse_operands_right(_, _)
parse_operands_right(cs, lhs) ==
    LET apply(rhs) ==
            IF ~rhs.ok THEN rhs
            ELSE LET rest == parse_operands_right(cs, rhs)
                 IN  IF ~rest.ok THEN rest
                     ELSE Built(app(rest.h, lhs.idx, rest.idx), rest.pos)
        on(t) ==
            IF ~t.ok THEN Parsed(FALSE, lhs.h, lhs.idx, lhs.pos)
            ELSE IF t.token \in {"TOKEN_CPAREN", "TOKEN_END", "TOKEN_SEMICOLON"}
            THEN lhs
            ELSE apply(parse_primary(lhs.h, cs, lhs.pos))
    IN  IF ~lhs.ok THEN lhs ELSE on(lexer_peek(cs, lhs.pos))

\* the while loop of parse_expr: lhs is the expression parsed so far
RECURSIVE parse_operands(_, _)
parse_operands(cs, lhs) ==
    LET apply(rhs) ==
            IF ~rhs.ok THEN rhs
            ELSE parse_operands(cs, Built(app(rhs.h, lhs.idx, rhs.idx), rhs.pos))
        on(t) ==
            IF ~t.ok THEN Parsed(FALSE, lhs.h, lhs.idx, lhs.pos)
            ELSE IF t.token \in {"TOKEN_CPAREN", "TOKEN_END", "TOKEN_SEMICOLON"}
            THEN lhs
            ELSE apply(parse_primary(lhs.h, cs, lhs.pos))
    IN  IF ~lhs.ok THEN lhs ELSE on(lexer_peek(cs, lhs.pos))

parse_expr(h, cs, pos) == parse_operands(cs, parse_primary(h, cs, pos))

\* expr_display(expr, &sb) and then parse_expr on a lexer over sb
reparse(h, expr) == parse_expr(h, Characters(expr_display(h, expr)), 0)

\* the library harness: the expression built last is printed and the text
\* is parsed
CallParse ==
    /\ call.fn = "none"
    /\ LET start == Len(GC.slots) - 1
           Done(r) ==
               /\ GC' = GCOf(r.h)
               /\ global_counter' = r.h.ctr
               /\ call' = [NoCall EXCEPT !.fn = "parse_expr", !.body = start,
                                         !.res = IF r.ok THEN "true" ELSE "false",
                                         !.out = r.idx]
       IN  Done(reparse(Heap, start))
    /\ UNCHANGED <<ctrl_c, labels>>
    /\ UNCHANGED <<arg_order, bindings, active_grid, gas_pool, gas, aborted,
                   last_gc>>

SpecParse == InitReplace /\ [][CallParse]_vars

\* the primaries of the input texts, each with the term it is the text
\* of: names, a magic, a parenthesised application, a parenthesised
\* function
Primaries ==
    << [text |-> <<"a">>, term |-> V("a")],
       [text |-> <<"b">>, term |-> V("b")],
       [text |-> <<"c">>, term |-> V("c")],
       [text |-> <<"#", "f", "o", "o">>, term |-> M("foo")],
       [text |-> <<"(", "a", " ", "b", ")">>, term |-> A(V("a"), V("b"))],
       [text |-> <<"(", "\\", "x", ".", "x", ")">>,
        term |-> F("x", V("x"))] >>

\* a function written last without parentheses: its body runs to the end
LastPrimaries ==
    << [text |-> <<"\\", "x", ".", "x", " ", "a">>,
        term |-> F("x", A(V("x"), V("a")))] >>

MaxPrimaries == 3

\* the inputs: up to MaxPrimaries primaries, then possibly a function
InputTexts ==
    {<<ps, l>> : ps \in UNION {[1 .. n -> 1 .. Len(Primaries)] :
                                 n \in 1 .. MaxPrimaries},
                 l \in 0 .. Len(LastPrimaries)}

PrimariesOf(input) ==
    [i \in 1 .. Len(input[1]) |-> Primaries[input[1][i]]]
    \o (IF input[2] = 0 THEN <<>> ELSE <<LastPrimaries[input[2]]>>)

\* the characters of the input: the primaries with a blank between them
RECURSIVE Joined(_)
Joined(ps) ==
    IF Len(ps) = 1 THEN ps[1].text
    ELSE ps[1].text \o <<" ">> \o Joined(Tail(ps))

\* the library harness: lexer_init on a text and parse_expr, as a REPL
\* line or test_associativity does
CallParseExpr ==
    /\ call.fn = "none"
    /\ \E input \in InputTexts :
          LET r == parse_expr(Heap, Joined(PrimariesOf(input)), 0)
          IN  /\ GC' = GCOf(r.h)
              /\ global_counter' = r.h.ctr
              /\ call' = [NoCall EXCEPT !.fn = "parse_text",
                                        !.input = input,
                                        !.res = IF r.ok THEN "true" ELSE "false",
                                        !.out = r.idx]
    /\ UNCHANGED <<ctrl_c, labels>>
    /\ UNCHANGED <<arg_order, bindings, active_grid, gas_pool, gas, aborted,
                   last_gc>>

SpecParseText == Init /\ [][CallParseExpr]_vars

-----------------------------------------------------------------------------
(* The interner: intern_label on a string, as test_symbol_interning and    *)
(* symbol() call it.  call.input is the record of the calls made so far:   *)
(* the string passed and the handle returned.                              *)

InternStrings == {"hello", "world", "x"}

MaxInternCalls == 4

CallIntern ==
    /\ call.fn \in {"none", "intern_label"}
    /\ Len(call.input) < MaxInternCalls
    /\ \E label \in InternStrings :
          \E r \in intern_label(labels, label) :
             /\ labels' = r.labels
             /\ call' = [call EXCEPT !.fn = "intern_label",
                                     !.out = r.handle,
                                     !.input = Append(@, [label |-> label,
                                                          handle |-> r.handle])]
    /\ UNCHANGED <<GC, global_counter, arg_order, bindings, active_grid,
                   gas_pool, gas, aborted, ctrl_c, last_gc>>

SpecIntern == Init /\ [][CallIntern]_vars

-----------------------------------------------------------------------------
(* Structural hash (lamb_view.c).  A uint32_t is the pair <<high, low>> of *)
(* its 16-bit halves, so that the arithmetic is exactly that of 32 bits.   *)

\* the uint32_t of a number below 2^31
u32(n) == <<(n \div 65536) % 65536, n % 65536>>

\* w * 33 + c in 32 bits; ((hash << 5) + hash) + c is this sum
u32_times33_plus(w, c) ==
    LET lo == w[2] * 33 + c
        hi == w[1] * 33 + (lo \div 65536)
    IN  <<hi % 65536, lo % 65536>>

\* w << 3 in 32 bits
u32_shl3(w) ==
    LET lo == w[2] * 8
        hi == w[1] * 8 + (lo \div 65536)
    IN  <<hi % 65536, lo % 65536>>

\* a ^ b over n bits
RECURSIVE Xor(_, _, _)
Xor(a, b, n) ==
    IF n = 0 THEN 0
    ELSE ((a + b) % 2) + 2 * Xor(a \div 2, b \div 2, n - 1)

u32_xor(a, b) == <<Xor(a[1], b[1], 16), Xor(a[2], b[2], 16)>>

\* (uint32_t)c of the characters the model's labels are spelled with
CharCode(c) ==
    CASE c = "0" -> 48  [] c = "1" -> 49  [] c = "2" -> 50  [] c = "3" -> 51
      [] c = "_" -> 95  [] c = "a" -> 97  [] c = "c" -> 99  [] c = "d" -> 100
      [] c = "e" -> 101 [] c = "f" -> 102 [] c = "i" -> 105 [] c = "o" -> 111
      [] c = "r" -> 114 [] c = "t" -> 116 [] c = "v" -> 118 [] c = "x" -> 120
      [] c = "y" -> 121

\* the while loop of hash_string over the characters that are left
RECURSIVE hash_chars(_, _)
hash_chars(hash, cs) ==
    IF cs = <<>> THEN hash
    ELSE hash_chars(u32_times33_plus(hash, CharCode(Head(cs))), Tail(cs))

hash_string(str) == hash_chars(u32(5381), Chars(str))

RECURSIVE hash_expr(_, _)
hash_expr(h, expr) ==
    IF expr >= Len(h.slots) THEN u32(0)
    ELSE IF ~Slot(h, expr).live THEN u32(0)
    ELSE LET e == Slot(h, expr)
         IN  CASE e.kind = "VAR" ->
                    u32_xor(hash_string(e.sym.label),
                            u32_times33_plus(u32(e.sym.tag), 0))
               [] e.kind = "MAG" ->
                    u32_xor(hash_string(e.sym.label), <<43690, 43690>>)
               [] e.kind = "FUN" ->
                    u32_xor(u32_shl3(hash_string(e.sym.label)),
                            hash_expr(h, e.body))
               [] e.kind = "APP" ->
                    u32_xor(u32_times33_plus(hash_expr(h, e.lhs), 0),
                            hash_expr(h, e.rhs))
               [] OTHER -> u32(0)

\* the library harness: hash_expr on two expressions of the arena
CallHash ==
    /\ call.fn = "none"
    /\ \E a \in 0 .. Len(GC.slots) - 1, b \in 0 .. Len(GC.slots) - 1 :
          call' = [NoCall EXCEPT !.fn = "hash_expr", !.body = a, !.arg = b,
                                 !.hash = <<hash_expr(Heap, a),
                                            hash_expr(Heap, b)>>]
    /\ UNCHANGED <<ctrl_c, labels>>
    /\ UNCHANGED <<GC, global_counter, arg_order, bindings, active_grid,
                   gas_pool, gas, aborted, last_gc>>

SpecHash == InitReplace /\ [][CallHash]_vars

-----------------------------------------------------------------------------
(* Reference notions the claims are stated with                            *)

\* the symbols occurring in the arena
SymbolsIn(h) ==
    {h.slots[i].sym : i \in {j \in 1 .. Len(h.slots) :
                                h.slots[j].kind \in {"VAR", "FUN"}}}

FreeVars(h, expr) ==
    {s \in SymbolsIn(h) : is_var_free_there(h, s, expr)}

\* position of the innermost binder of s in env (innermost first), 0 if none
RECURSIVE BinderOf(_, _, _)
BinderOf(env, s, k) ==
    IF k > Len(env) THEN 0
    ELSE IF env[k] = s THEN k
    ELSE BinderOf(env, s, k + 1)

\* the expression with every bound variable replaced by the distance to its
\* binder: two expressions are alpha-equivalent iff their nameless forms are
\* equal
RECURSIVE Nameless(_, _, _)
Nameless(h, expr, env) ==
    LET e == Slot(h, expr)
    IN  CASE e.kind = "VAR" ->
                IF BinderOf(env, e.sym, 1) # 0
                THEN <<"bound", BinderOf(env, e.sym, 1)>>
                ELSE <<"free", e.sym.label, e.sym.tag>>
          [] e.kind = "MAG" -> <<"mag", e.sym.label>>
          [] e.kind = "FUN" -> <<"fun", Nameless(h, e.body, <<e.sym>> \o env)>>
          [] e.kind = "APP" -> <<"app", Nameless(h, e.lhs, env),
                                        Nameless(h, e.rhs, env)>>

\* substitution on nameless forms: every free occurrence of param becomes u
RECURSIVE SubstNameless(_, _, _)
SubstNameless(t, param, u) ==
    CASE t[1] = "free" ->
            IF t[2] = param.label /\ t[3] = param.tag THEN u ELSE t
      [] t[1] = "bound" -> t
      [] t[1] = "mag" -> t
      [] t[1] = "fun" -> <<"fun", SubstNameless(t[2], param, u)>>
      [] t[1] = "app" -> <<"app", SubstNameless(t[2], param, u),
                                  SubstNameless(t[3], param, u)>>

\* an App whose head is a Fun or a Magic occurs in the expression
RECURSIVE HasRedex(_, _)
HasRedex(h, expr) ==
    LET e == Slot(h, expr)
    IN  CASE e.kind = "VAR" -> FALSE
          [] e.kind = "MAG" -> FALSE
          [] e.kind = "FUN" -> HasRedex(h, e.body)
          [] e.kind = "APP" -> \/ Slot(h, e.lhs).kind \in {"FUN", "MAG"}
                               \/ HasRedex(h, e.lhs)
                               \/ HasRedex(h, e.rhs)

\* curr after k steps of eval1 that each succeeded and changed the expression
RECURSIVE Iterate(_, _, _)
Iterate(h, curr, k) ==
    IF k = 0 THEN [h |-> h, idx |-> curr, ok |-> TRUE]
    ELSE LET n == eval1(h, curr)
         IN  IF ~n.ok \/ n.idx = curr THEN [h |-> n.h, idx |-> curr, ok |-> FALSE]
             ELSE Iterate(n.h, n.idx, k - 1)

\* Reference beta-reduction on nameless forms.  Shift adds d to every bound
\* index that points outside the c innermost binders.
RECURSIVE Shift(_, _, _)
Shift(t, d, c) ==
    CASE t[1] = "bound" -> IF t[2] > c THEN <<"bound", t[2] + d>> ELSE t
      [] t[1] = "free" -> t
      [] t[1] = "mag" -> t
      [] t[1] = "fun" -> <<"fun", Shift(t[2], d, c + 1)>>
      [] t[1] = "app" -> <<"app", Shift(t[2], d, c), Shift(t[3], d, c)>>

\* t with the variable bound by the j-th enclosing binder replaced by u and
\* that binder removed
RECURSIVE Open(_, _, _)
Open(t, j, u) ==
    CASE t[1] = "bound" -> IF t[2] = j THEN Shift(u, j - 1, 0)
                           ELSE IF t[2] > j THEN <<"bound", t[2] - 1>>
                           ELSE t
      [] t[1] = "free" -> t
      [] t[1] = "mag" -> t
      [] t[1] = "fun" -> <<"fun", Open(t[2], j + 1, u)>>
      [] t[1] = "app" -> <<"app", Open(t[2], j, u), Open(t[3], j, u)>>

\* a beta-redex occurs in the nameless form
RECURSIVE BetaRedexIn(_)
BetaRedexIn(t) ==
    CASE t[1] = "fun" -> BetaRedexIn(t[2])
      [] t[1] = "app" -> t[2][1] = "fun" \/ BetaRedexIn(t[2]) \/ BetaRedexIn(t[3])
      [] OTHER -> FALSE

\* one step of leftmost-outermost beta-reduction
RECURSIVE LeftmostOutermost(_)
LeftmostOutermost(t) ==
    CASE t[1] = "fun" -> <<"fun", LeftmostOutermost(t[2])>>
      [] t[1] = "app" ->
            IF t[2][1] = "fun" THEN Open(t[2][2], 1, t[3])
            ELSE IF BetaRedexIn(t[2])
            THEN <<"app", LeftmostOutermost(t[2]), t[3]>>
            ELSE <<"app", t[2], LeftmostOutermost(t[3])>>
      [] OTHER -> t

\* the beta-normal form reached by at most fuel leftmost-outermost steps,
\* <<"none">> if more steps are needed
RECURSIVE NormalForm(_, _)
NormalForm(t, fuel) ==
    IF ~BetaRedexIn(t) THEN t
    ELSE IF fuel = 0 THEN <<"none">>
    ELSE NormalForm(LeftmostOutermost(t), fuel - 1)

\* a Magic node occurs in the expression
RECURSIVE HasMagic(_, _)
HasMagic(h, expr) ==
    LET e == Slot(h, expr)
    IN  CASE e.kind = "VAR" -> FALSE
          [] e.kind = "MAG" -> TRUE
          [] e.kind = "FUN" -> HasMagic(h, e.body)
          [] e.kind = "APP" -> HasMagic(h, e.lhs) \/ HasMagic(h, e.rhs)

\* the arena began as the expression parse built for program t, whose root
\* is root (evaluation only appends slots)
BeganAs(h, root, t) ==
    LET p == parse(EmptyHeap, t)
    IN  /\ root = p.idx
        /\ Len(h.slots) >= Len(p.h.slots)
        /\ SubSeq(h.slots, 1, Len(p.h.slots)) = p.h.slots

-----------------------------------------------------------------------------
(* Claims on substitution and reduction                                    *)

\* C3: the free variables of replace(param, body, arg) are among the free
\* variables of body other than param and the free variables of arg
C3_FreeVarsOfReplace ==
    [][call'.fn = "replace" =>
          LET h0 == Heap
              h1 == Heap'
          IN  \A s \in FreeVars(h1, call'.out) :
                 \/ s # call'.param /\ is_var_free_there(h0, s, call'.body)
                 \/ is_var_free_there(h0, s, call'.arg)]_vars

\* a substitution that had to rename a binder was made
C3_Witness ==
    /\ call.fn = "replace"
    /\ global_counter = 2
    /\ FreeVars(Heap, call.out) # {}
    /\ call.out \notin {call.body, call.arg}

\* C4: replace never captures: its result is alpha-equivalent to the
\* substitution of arg for the free occurrences of param in body, and with
\* the counter at 0, replace(x, \y.x, y) is \y:1.y
C4_NoCapture ==
    [][call'.fn = "replace" =>
          LET h0 == Heap
              h1 == Heap'
          IN  /\ Nameless(h1, call'.out, <<>>) =
                    SubstNameless(Nameless(h0, call'.body, <<>>), call'.param,
                                  Nameless(h0, call'.arg, <<>>))
              /\ (/\ global_counter = 0
                  /\ call'.param = Sym("x", 0)
                  /\ expr_to_string(h0, call'.body) = "\\y.x"
                  /\ expr_to_string(h0, call'.arg) = "y")
                 => expr_to_string(h1, call'.out) = "\\y:1.y"]_vars

\* the renaming case of the test: replace(x, \y.x, y) returned \y:1.y
C4_Witness ==
    /\ call.fn = "replace"
    /\ call.param = Sym("x", 0)
    /\ expr_to_string(Heap, call.body) = "\\y.x"
    /\ expr_to_string(Heap, call.arg) = "y"
    /\ expr_to_string(Heap, call.out) = "\\y:1.y"

\* C5: the result of eval_bounded returning EVAL_DONE is a normal form:
\* eval1 on it succeeds with the same index, and it holds no App whose head
\* is a Fun or a Magic
C5_DoneIsNormalForm ==
    (call.fn = "eval_bounded" /\ call.res = "EVAL_DONE") =>
        LET r == eval1(Heap, call.out)
        IN  /\ r.ok
            /\ r.idx = call.out
            /\ ~HasRedex(Heap, call.out)

\* EVAL_DONE was returned after at least one reduction step
C5_Witness ==
    /\ call.fn = "eval_bounded"
    /\ call.res = "EVAL_DONE"
    /\ call.out # call.body

\* the two parts of C6 for one call: a Done result is within the mass
\* limit, and a curr heavier than the limit at the start of an iteration
\* gives EVAL_LIMIT
MassRespected(h0, h1, c) ==
    /\ c.res = "EVAL_DONE" => expr_mass(h1, c.out) <= c.max_mass
    /\ \A k \in 0 .. c.limit - 1 :
          LET it == Iterate(h0, c.body, k)
          IN  (it.ok /\ expr_mass(it.h, it.idx) > c.max_mass)
                  => c.res = "EVAL_LIMIT"

\* C6 as stated: for every mass_limit >= 0
C6_AnyMassLimit ==
    [][call'.fn = "eval_bounded" => MassRespected(Heap, Heap', call')]_vars

\* C6 amended: for every mass_limit > 0; with mass_limit = 0 the mass is
\* not checked, and an expression that reaches its normal form within the
\* step limit gives EVAL_DONE whatever its mass
C6_PositiveMassLimit ==
    [][call'.fn = "eval_bounded" =>
          /\ call'.max_mass > 0 => MassRespected(Heap, Heap', call')
          /\ call'.max_mass = 0 =>
                \A k \in 0 .. call'.limit - 1 :
                   LET it == Iterate(Heap, call'.body, k)
                       n  == eval1(it.h, it.idx)
                   IN  (it.ok /\ n.ok /\ n.idx = it.idx)
                          => call'.res = "EVAL_DONE"]_vars

\* a reduction was cut short by the mass limit after its first step
C6_Witness ==
    /\ call.fn = "eval_bounded"
    /\ call.max_mass > 0
    /\ call.limit > 1
    /\ call.res = "EVAL_LIMIT"
    /\ expr_mass(Heap, call.body) <= call.max_mass

-----------------------------------------------------------------------------
(* The collector and the grid reactor                                      *)

\* the indices the holders of a gc call keep: its root argument, the
\* binding bodies, the atoms of the occupied cells and the pool
HeldBy(s) ==
    {s.root} \cup {s.bs[i].body : i \in 1 .. Len(s.bs)}
             \cup {s.cells[i].atom : i \in {k \in 1 .. Len(s.cells) :
                                              s.cells[k].occupied}}
             \cup {s.pool[i] : i \in 1 .. Len(s.pool)}

\* the children of the slots of set S that can be read
ChildrenOf(h, S) ==
    UNION {LET e == Slot(h, i)
           IN  CASE e.kind = "FUN" -> {e.body}
                 [] e.kind = "APP" -> {e.lhs, e.rhs}
                 [] OTHER -> {} :
           i \in {k \in S : Usable(h, k)}}

RECURSIVE ReachableFrom(_, _)
ReachableFrom(h, S) ==
    LET T == S \cup ChildrenOf(h, S)
    IN  IF T = S THEN S ELSE ReachableFrom(h, T)

\* C1: after every call to gc(root, bindings) the root argument, every
\* binding body, every pool entry and the atom of every occupied cell
\* refer to live slots, and so does every index reachable from them
\* through Fun bodies and App operands.
C1_HoldersLiveAfterGc ==
    last_gc.called =>
        \A i \in ReachableFrom(last_gc.h, HeldBy(last_gc)) :
            Usable(last_gc.h, i)

\* a gc of grid_step that freed slots while a binding and a cell held
\* expressions, after an earlier step had compacted the arena
C1_Witness ==
    /\ last_gc.called
    /\ call.fn = "grid_step"
    /\ call.res # ""
    /\ active_grid.steps > CompactPeriod
    /\ Len(last_gc.bs) > 0
    /\ \E i \in 1 .. Len(last_gc.cells) : last_gc.cells[i].occupied
    /\ Len(last_gc.h.dead) > 0

\* the text of the expression at index i, or "?" when the index cannot be
\* read (expr_display would fail its assert)
Shown(h, i) == IF Usable(h, i) THEN expr_to_string(h, i) ELSE "?"

\* C2: when grid_step triggers gc_compact, the pretty-print of every
\* binding body and of the atom of every occupied cell is the same before
\* and after the compaction.
C2_CompactionKeepsHolders ==
    (call.fn = "grid_step" /\ call.res = "gc_compact") =>
        /\ \A i \in 1 .. Len(bindings) :
              /\ Usable(Heap, bindings[i].body)
              /\ Shown(Heap, bindings[i].body) =
                     Shown(last_gc.h, last_gc.bs[i].body)
        /\ \A i \in 1 .. Len(active_grid.cells) :
              active_grid.cells[i].occupied =>
                  Shown(Heap, active_grid.cells[i].atom) =
                      Shown(last_gc.h, last_gc.cells[i].atom)

\* the part of C2 that the code keeps: the cells are rewritten
C2_CellsKept ==
    (call.fn = "grid_step" /\ call.res = "gc_compact") =>
        \A i \in 1 .. Len(active_grid.cells) :
            active_grid.cells[i].occupied =>
                /\ Usable(Heap, active_grid.cells[i].atom)
                /\ Shown(Heap, active_grid.cells[i].atom) =
                       Shown(last_gc.h, last_gc.cells[i].atom)

\* C7: after gc completes every live slot is reachable from a root (the
\* root argument, a binding body or a pool entry), and every unreachable
\* slot has live = false and is on the free-list.
C7_LiveIffReachable ==
    last_gc.called =>
        LET h == last_gc.h
            R == ReachableFrom(h, HeldBy(last_gc))
        IN  \A i \in 0 .. Len(h.slots) - 1 :
               /\ Slot(h, i).live => i \in R
               /\ i \notin R =>
                      /\ ~Slot(h, i).live
                      /\ \E k \in 1 .. Len(h.dead) : h.dead[k] = i

\* a later gc of the :gas loop with a binding and a pool to keep and freed
\* slots on the free-list
C7_Witness ==
    /\ last_gc.called
    /\ gas.it > GasGcPeriod
    /\ Len(last_gc.pool) > 0
    /\ Len(last_gc.bs) > 0
    /\ Len(last_gc.h.dead) > 0
    /\ \E i \in 0 .. Len(last_gc.h.slots) - 1 : Slot(last_gc.h, i).live

\* C8: every index on the free-list GC.dead refers to a slot with
\* live = false, and the assert of alloc_expr never fails.
C8_FreeListHoldsDeadSlots ==
    /\ \A k \in 1 .. Len(GC.dead) :
          /\ InArena(Heap, GC.dead[k])
          /\ ~Slot(Heap, GC.dead[k]).live
    /\ aborted # "alloc_expr"

\* a free-list left by a gc that came after a compaction and after slots
\* of the free-list had been handed out again
C8_Witness ==
    /\ Len(GC.dead) > 0
    /\ call.fn = "grid_step"
    /\ call.res = "gc"
    /\ active_grid.steps >= 2 * CompactPeriod
    /\ Len(bindings) > 0

\* C9: a grid_step changes the population by the step's cosmic spawns minus
\* its deaths of age minus its diverged reactions, so the population is
\* always the seeded one minus deaths_age minus reactions_diverged plus
\* cosmic_spawns.
C9_PopulationBalance ==
    /\ [](active_grid.cells # <<>> =>
             grid_population(active_grid) =
                 call.count - active_grid.deaths_age
                            - active_grid.reactions_diverged
                            + active_grid.cosmic_spawns)
    /\ [][(active_grid.cells # <<>> /\
           active_grid'.steps = active_grid.steps + 1) =>
              grid_population(active_grid') =
                  grid_population(active_grid)
                  - (active_grid'.deaths_age - active_grid.deaths_age)
                  - (active_grid'.reactions_diverged
                         - active_grid.reactions_diverged)
                  + (active_grid'.cosmic_spawns - active_grid.cosmic_spawns)
       ]_vars

\* a grid that has seen a movement, a death of age, a cosmic spawn and a
\* diverged reaction
C9_Witness ==
    /\ active_grid.cells # <<>>
    /\ active_grid.movements > 0
    /\ active_grid.deaths_age > 0
    /\ active_grid.cosmic_spawns > 0
    /\ active_grid.reactions_diverged > 0

\* the :grid command seeded every cell with the identity function (depth 1
\* generates nothing else) and no cosmic ray has fired
IdentityGridRun ==
    /\ active_grid.cells # <<>>
    /\ call.depth = 1
    /\ call.count = active_grid.width * active_grid.height
    /\ active_grid.cosmic_spawns = 0

\* C10 as stated: on a full grid of identity functions with no cosmic ray,
\* after MAX_AGE + 1 steps the grid is empty, deaths_age is the initial
\* population and reactions_success is 0.
C10_IdentityGridDiesOut ==
    (IdentityGridRun /\ active_grid.steps = MAX_AGE + 1) =>
        /\ grid_population(active_grid) = 0
        /\ active_grid.deaths_age = call.count
        /\ active_grid.reactions_success = 0

\* C10 as the code has it: when the step limit lets I I reach its normal
\* form (two steps), every cell reacts with an occupied neighbour in every
\* step, each reaction succeeds and resets the ages, and the grid stays
\* full of identity functions.
C10_IdentityGridPersists ==
    (IdentityGridRun /\ call.limit >= 2) =>
        /\ grid_population(active_grid) = call.count
        /\ active_grid.deaths_age = 0
        /\ active_grid.reactions_diverged = 0
        /\ active_grid.movements = 0
        /\ active_grid.reactions_success = active_grid.steps * call.count
        /\ \A i \in 1 .. Len(active_grid.cells) :
              /\ is_identity(Heap, active_grid.cells[i].atom)
              /\ active_grid.cells[i].age = 0

C10_Witness ==
    /\ IdentityGridRun
    /\ call.limit >= 2
    /\ active_grid.steps = MAX_AGE + 1
    /\ grid_population(active_grid) = call.count

-----------------------------------------------------------------------------
(* The gas reactor                                                         *)

\* every entry of the pool is a readable identity function
IdentityPool(h, pool) ==
    \A i \in 1 .. Len(pool) : Usable(h, pool[i]) /\ is_identity(h, pool[i])

\* the species of the pool: the texts of its entries
Species(h, pool) == {Shown(h, pool[i]) : i \in 1 .. Len(pool)}

\* an iteration of the :gas loop that completed
GasIterationDone == gas.running /\ gas'.it = gas.it + 1

\* the pool keeps its size from the seeding to the end of the run
GasPoolSizeKept ==
    /\ [](gas.running => Len(gas_pool) = call.count)
    /\ [][GasIterationDone => Len(gas_pool') = Len(gas_pool)]_vars

\* C11 as stated: during a gas run the pool size never changes, and an
\* iteration on a pool of identity functions returns Done, leaves a pool of
\* identity functions with no new species and counts one converged
\* reaction, whatever the step limit and also when gc runs.
C11_IdentityGasAnyLimit ==
    /\ GasPoolSizeKept
    /\ [][(GasIterationDone /\ IdentityPool(Heap, gas_pool)) =>
              /\ IdentityPool(Heap', gas_pool')
              /\ Species(Heap', gas_pool') \subseteq Species(Heap, gas_pool)
              /\ gas'.converged = gas.converged + 1
              /\ gas'.diverged = gas.diverged
              /\ gas'.errors = gas.errors
       ]_vars

\* C11 for a step limit of at least 2, which I I needs to be seen in normal
\* form: the pool size never changes, and an iteration on a pool of
\* identity functions returns Done, leaves a pool of identity functions
\* with no new species and counts one converged reaction, also when gc
\* runs; from an identity pool converged is the number of iterations run.
C11_IdentityGasConverges ==
    /\ GasPoolSizeKept
    /\ [][(GasIterationDone /\ IdentityPool(Heap, gas_pool)
                            /\ call.limit >= 2) =>
              /\ IdentityPool(Heap', gas_pool')
              /\ Species(Heap', gas_pool') \subseteq Species(Heap, gas_pool)
              /\ gas'.converged = gas.converged + 1
              /\ gas'.diverged = gas.diverged
              /\ gas'.errors = gas.errors
       ]_vars

\* the last iteration of a run on two identity functions, after a gc
C11_Witness ==
    /\ gas.running
    /\ call.limit >= 2
    /\ gas.it = gas.iterations
    /\ gas.converged = gas.it
    /\ Len(gas_pool) = 2
    /\ IdentityPool(Heap, gas_pool)
    /\ last_gc.called

-----------------------------------------------------------------------------
(* The printer and the parser                                              *)

\* the shape of an expression: kinds, symbols (label and tag) and operands
RECURSIVE Structure(_, _)
Structure(h, expr) ==
    LET e == Slot(h, expr)
    IN  CASE e.kind = "VAR" -> <<"var", e.sym>>
          [] e.kind = "MAG" -> <<"mag", e.sym.label>>
          [] e.kind = "FUN" -> <<"fun", e.sym, Structure(h, e.body)>>
          [] e.kind = "APP" -> <<"app", Structure(h, e.lhs), Structure(h, e.rhs)>>

\* a symbol with a tag occurs in the expression
RECURSIVE HasTag(_, _)
HasTag(h, expr) ==
    LET e == Slot(h, expr)
    IN  CASE e.kind = "VAR" -> e.sym.tag # 0
          [] e.kind = "MAG" -> FALSE
          [] e.kind = "FUN" -> e.sym.tag # 0 \/ HasTag(h, e.body)
          [] e.kind = "APP" -> HasTag(h, e.lhs) \/ HasTag(h, e.rhs)

\* C12: parse_expr on the text expr_display writes for an expression, with
\* or without tagged symbols, succeeds and builds an expression of the same
\* structure.
C12_ParseOfDisplay ==
    call.fn = "parse_expr" =>
        /\ call.res = "true"
        /\ Structure(Heap, call.out) = Structure(Heap, call.body)

\* the part of C12 the code keeps: the round trip of an expression in
\* which no symbol has a tag
C12_PlainRoundTrip ==
    (call.fn = "parse_expr" /\ ~HasTag(Heap, call.body)) =>
        /\ call.res = "true"
        /\ Structure(Heap, call.out) = Structure(Heap, call.body)

\* with a tag in the text the parser fails
C12_TaggedFails ==
    (call.fn = "parse_expr" /\ HasTag(Heap, call.body)) => call.res = "false"

-----------------------------------------------------------------------------
(* The generator                                                           *)

\* C13: for every maximum depth and every sequence of random draws the
\* expression generate_rich_combinator(0, depth, empty environment) returns
\* is closed: no variable is free in it.
C13_GeneratedIsClosed ==
    call.fn = "generate_rich_combinator" => FreeVars(Heap, call.out) = {}

\* a generated function whose body is an application, at the largest depth
C13_Witness ==
    /\ call.fn = "generate_rich_combinator"
    /\ call.depth = MaxGenDepth
    /\ Slot(Heap, call.out).kind = "FUN"
    /\ Slot(Heap, Slot(Heap, call.out).body).kind = "APP"

-----------------------------------------------------------------------------
(* Normal-order reduction                                                  *)

\* the programs of test_identity, test_boolean_true, test_boolean_false,
\* test_s_combinator and test_church_numerals with the strings the tests
\* expect
NormalOrderTests ==
    << <<TestPrograms[1], "y">>,
       <<TestPrograms[2], "a">>,
       <<TestPrograms[3], "b">>,
       <<TestPrograms[5], "a c (b c)">>,
       <<TestPrograms[8], "\\f.x.f (f x)">> >>

\* C14: iterating eval1 until it reports no change computes the
\* beta-normal form by normal-order reduction: when the loop of
\* eval_bounded ends with EVAL_DONE on an expression without Magic nodes,
\* the result is alpha-equivalent to the normal form of leftmost-outermost
\* beta-reduction of the start expression; and the five expressions of the
\* tests give the strings the tests expect.
C14_NormalOrder ==
    (call.fn = "eval_bounded" /\ call.res = "EVAL_DONE") =>
        /\ ~HasMagic(Heap, call.body) =>
               Nameless(Heap, call.out, <<>>) =
                   NormalForm(Nameless(Heap, call.body, <<>>), call.limit)
        /\ \A i \in 1 .. Len(NormalOrderTests) :
               BeganAs(Heap, call.body, NormalOrderTests[i][1]) =>
                   expr_to_string(Heap, call.out) = NormalOrderTests[i][2]

\* successor applied to Church one reached its normal form, by reductions
\* inside the body of a Fun
C14_Witness ==
    /\ call.fn = "eval_bounded"
    /\ call.res = "EVAL_DONE"
    /\ BeganAs(Heap, call.body, TestPrograms[8])
    /\ expr_to_string(Heap, call.out) = "\\f.x.f (f x)"

-----------------------------------------------------------------------------
(* Magic                                                                   *)

\* the Apps of the arena whose head is the Magic m
MagicApps(h, m) ==
    {i \in 0 .. Len(h.slots) - 1 :
        /\ Usable(h, i)
        /\ Slot(h, i).kind = "APP"
        /\ Usable(h, Slot(h, i).lhs)
        /\ Slot(h, Slot(h, i).lhs).kind = "MAG"
        /\ Slot(h, Slot(h, i).lhs).sym.label = m}

\* eval1 on the App keeps the wrapper around the operand reduced by one
\* step while the operand changes, and returns atNormalForm once it is a
\* normal form
MagicStep(h, expr, atNormalForm) ==
    LET e == Slot(h, expr)
        n == eval1(h, e.rhs)
        r == eval1(h, expr)
    IN  n.ok =>
          /\ r.ok
          /\ HasRedex(h, e.rhs) =>
                /\ n.idx # e.rhs
                /\ r.idx \notin {expr, e.rhs, e.lhs}
                /\ Slot(r.h, r.idx).kind = "APP"
                /\ Slot(r.h, r.idx).lhs = e.lhs
                /\ Slot(r.h, r.idx).rhs = n.idx
                /\ Nameless(r.h, n.idx, <<>>) = Nameless(n.h, n.idx, <<>>)
          /\ ~HasRedex(h, e.rhs) =>
                /\ r.idx = atNormalForm
                /\ r.h = h

\* C15: for m in {trace, void}, eval1 on App(Magic m, e) reduces e by one
\* step and keeps the wrapper while e still changes; once e is a normal
\* form it returns e itself for #trace and the Magic void node for #void.
\* Hence #void (\x.x) evaluates to #void and #trace (\z.z) to \z.z.
C15_MagicWrappers ==
    /\ \A i \in MagicApps(Heap, "trace") : MagicStep(Heap, i, Slot(Heap, i).rhs)
    /\ \A i \in MagicApps(Heap, "void") : MagicStep(Heap, i, Slot(Heap, i).lhs)
    /\ (call.fn = "eval_bounded" /\ call.res = "EVAL_DONE") =>
          /\ BeganAs(Heap, call.body, TestPrograms[6]) =>
                 expr_to_string(Heap, call.out) = "#void"
          /\ BeganAs(Heap, call.body, TestPrograms[7]) =>
                 expr_to_string(Heap, call.out) = "\\z.z"

\* #void applied to a redex was evaluated to #void: the wrapper was kept
\* for one step and the operand dropped at the next
C15_Witness ==
    /\ call.fn = "eval_bounded"
    /\ call.res = "EVAL_DONE"
    /\ BeganAs(Heap, call.body, TestPrograms[12])
    /\ call.out = Slot(Heap, call.body).lhs
    /\ \E i \in MagicApps(Heap, "void") :
          i # call.body /\ ~HasRedex(Heap, Slot(Heap, i).rhs)

\* the Apps of the arena whose head is a Magic other than trace and void
UnknownMagicApps(h) ==
    {i \in 0 .. Len(h.slots) - 1 :
        /\ Usable(h, i)
        /\ Slot(h, i).kind = "APP"
        /\ Usable(h, Slot(h, i).lhs)
        /\ Slot(h, Slot(h, i).lhs).kind = "MAG"
        /\ Slot(h, Slot(h, i).lhs).sym.label \notin {"trace", "void"}}

\* eval1 fails on the App, and eval_bounded on it returns EVAL_ERROR for
\* every step limit that lets it call eval1
FailsWithError(h, expr) ==
    /\ ~eval1(h, expr).ok
    /\ \A limit \in 1 .. MaxEvalSteps, max_mass \in {0, GridMaxMass, GasMaxMass} :
          eval_bounded(h, expr, limit, max_mass).res = "EVAL_ERROR"

\* the result of the reaction of the pool entries a and b
Reaction(h, pool, a, b, limit) ==
    LET react(x) == eval_bounded(x.h, x.idx, limit, GasMaxMass).res
    IN  react(app(h, pool[a], pool[b]))

\* the pool entry k was replaced by a fresh combinator
Replaced(k) ==
    /\ ~Usable(Heap, gas_pool'[k])
    /\ Usable(Heap', gas_pool'[k])
    /\ ~HasMagic(Heap', gas_pool'[k])
    /\ FreeVars(Heap', gas_pool'[k]) = {}

\* a gas iteration counts an error exactly for a pair of reactants whose
\* reaction is an Error, and then both reactants are replaced and the other
\* entries kept
GasErrorReplacesBoth ==
    (GasIterationDone /\ aborted' = "") =>
        LET n    == Len(gas_pool)
            errs == {p \in (1 .. n) \X (1 .. n) :
                        Reaction(Heap, gas_pool, p[1], p[2], call.limit)
                            = "EVAL_ERROR"}
        IN  /\ gas'.errors \in {gas.errors, gas.errors + 1}
            /\ gas'.errors = gas.errors => errs # (1 .. n) \X (1 .. n)
            /\ gas'.errors = gas.errors + 1 =>
                  /\ gas'.converged = gas.converged
                  /\ gas'.diverged = gas.diverged
                  /\ \E p \in errs :
                        /\ Replaced(p[1])
                        /\ Replaced(p[2])
                        /\ \A k \in (1 .. n) \ {p[1], p[2]} :
                              gas_pool'[k] = gas_pool[k]

\* app(atom, B) is an Error whatever B is: atom is an unknown Magic or an
\* App eval1 fails on
ErrorHead(h, atom) ==
    /\ Usable(h, atom)
    /\ \/ /\ Slot(h, atom).kind = "MAG"
          /\ Slot(h, atom).sym.label \notin {"trace", "void"}
       \/ atom \in UnknownMagicApps(h)

GridStepDone ==
    /\ active_grid.cells # <<>>
    /\ active_grid'.cells # <<>>
    /\ active_grid'.steps = active_grid.steps + 1

\* when every atom of the grid makes the reaction an Error, a grid step has
\* no successful reaction and every reaction empties one cell
GridErrorEmptiesVictim ==
    (GridStepDone /\ \A i \in 1 .. Len(active_grid.cells) :
                        active_grid.cells[i].occupied =>
                            ErrorHead(Heap, active_grid.cells[i].atom)) =>
        /\ active_grid'.reactions_success = active_grid.reactions_success
        /\ grid_population(active_grid') =
              grid_population(active_grid)
              - (active_grid'.reactions_diverged - active_grid.reactions_diverged)
              - (active_grid'.deaths_age - active_grid.deaths_age)
              + (active_grid'.cosmic_spawns - active_grid.cosmic_spawns)

-----------------------------------------------------------------------------
(* Cancellation                                                            *)

\* the step starts an eval1 call of the reduction loop, a gas iteration or
\* a grid step
StepStarted ==
    \/ EvalRunning /\ call'.count = call.count + 1
    \/ gas.running /\ gas'.it = gas.it + 1
    \/ GridRunning /\ active_grid'.steps = active_grid.steps + 1

\* C17: once ctrl_c is set while an expression evaluation, a gas run or a
\* grid run is in progress, no further eval1 step, gas iteration or grid
\* step is started: the loop exits at its next poll and control returns to
\* the prompt.
C17_CancelStopsLoops ==
    /\ [][(ctrl_c = 1 /\ Running) => ~StepStarted]_vars
    /\ [][(ctrl_c = 1 /\ Running) => AtPrompt']_vars
    /\ (ctrl_c = 1 /\ Running) ~> AtPrompt

\* a gas run of two iterations was cancelled after its first iteration
C17_Witness ==
    /\ ctrl_c = 1
    /\ call.fn = "gas_end"
    /\ AtPrompt
    /\ gas.it = 1
    /\ gas.it < gas.iterations

-----------------------------------------------------------------------------
(* Symbols                                                                 *)

\* C18: every symbol_fresh call returns a symbol with the same label and a
\* tag strictly greater than every tag issued before, so the returned
\* symbol is never symbol_eq to a symbol of an existing expression: every
\* tag in the arena is at most the counter, symbol_fresh on any symbol of
\* the arena gives a symbol above all of them, and every symbol a replace
\* call adds to the arena has a tag above the counter the call began with.
C18_FreshIsNew ==
    /\ [](\A s \in SymbolsIn(Heap) : s.tag <= global_counter)
    /\ [](\A s \in SymbolsIn(Heap) :
             LET f == symbol_fresh(Heap, s)
             IN  /\ f.sym.label = s.label
                 /\ f.sym.tag = f.h.ctr
                 /\ \A u \in SymbolsIn(Heap) :
                       f.sym.tag > u.tag /\ ~symbol_eq(f.sym, u))
    /\ [][/\ global_counter' >= global_counter
          /\ \A s \in SymbolsIn(Heap') \ SymbolsIn(Heap) :
                /\ s.tag > global_counter
                /\ s.tag <= global_counter'
                /\ \E u \in SymbolsIn(Heap) : u.label = s.label]_vars

\* replace renamed a binder y while y:1 was already in the arena: the new
\* name is y:2
C18_Witness ==
    /\ call.fn = "replace"
    /\ global_counter = 2
    /\ Sym("y", 1) \in SymbolsIn(Heap)
    /\ Sym("y", 2) \in SymbolsIn(Heap)

-----------------------------------------------------------------------------
(* Bindings                                                                *)

NamesOf(bs) == {bs[i].name : i \in 1 .. Len(bs)}

\* the bodies bound to name
BodiesBoundTo(bs, name) ==
    {bs[i].body : i \in {k \in 1 .. Len(bs) : symbol_eq(bs[k].name, name)}}

\* a binding line was executed: it parsed an expression into new slots
BindDone == call'.fn = "bind" /\ Len(GC'.slots) > Len(GC.slots)

\* C19: after any sequence of create_binding calls the bindings table holds
\* at most one entry per name, the entry for a name holds the body of the
\* most recent create_binding for that name, and the bindings of other
\* names are unchanged: every call leaves its name bound to its body only,
\* and every other name bound as before.
C19_OneBindingPerName ==
    /\ [](\A i, j \in 1 .. Len(bindings) :
             symbol_eq(bindings[i].name, bindings[j].name) => i = j)
    /\ [][BindDone =>
            \E name \in NamesOf(bindings') :
               /\ BodiesBoundTo(bindings', name) = {call'.out}
               /\ NamesOf(bindings') = NamesOf(bindings) \cup {name}
               /\ \A n \in NamesOf(bindings) \ {name} :
                     BodiesBoundTo(bindings', n) = BodiesBoundTo(bindings, n)
               /\ SelectSeq(bindings', LAMBDA b : ~symbol_eq(b.name, name)) =
                     SelectSeq(bindings, LAMBDA b : ~symbol_eq(b.name, name))]_vars

\* the first of two names was bound again after the second: its entry
\* holds the newest expression
C19_Witness ==
    /\ call.fn = "bind"
    /\ Len(bindings) = 2
    /\ bindings[1].body = call.out
    /\ bindings[1].body > bindings[2].body

-----------------------------------------------------------------------------
(* Compaction                                                              *)

LiveCount(slots) == Cardinality({i \in 1 .. Len(slots) : slots[i].live})

\* C20: after gc_compact performs a compaction, GC.slots.count equals the
\* number of live slots, every slot in the arena is live, and the free-list
\* is empty.  (last_gc.h is the arena as the gc call before the compaction
\* left it.)
C20_CompactArena ==
    (call.fn = "grid_step" /\ call.res = "gc_compact") =>
        /\ Len(GC.slots) = LiveCount(last_gc.h.slots)
        /\ \A i \in 1 .. Len(GC.slots) : GC.slots[i].live
        /\ GC.dead = <<>>

\* a compaction dropped freed slots and kept live ones
C20_Witness ==
    /\ call.fn = "grid_step"
    /\ call.res = "gc_compact"
    /\ LiveCount(last_gc.h.slots) > 0
    /\ LiveCount(last_gc.h.slots) < Len(last_gc.h.slots)
    /\ Len(GC.slots) < Len(last_gc.h.slots)

-----------------------------------------------------------------------------
(* The structural hash                                                     *)

\* the shape of an expression with the tags of its symbols left out
RECURSIVE Untagged(_, _)
Untagged(h, expr) ==
    LET e == Slot(h, expr)
    IN  CASE e.kind = "VAR" -> <<"var", e.sym.label>>
          [] e.kind = "MAG" -> <<"mag", e.sym.label>>
          [] e.kind = "FUN" -> <<"fun", e.sym.label, Untagged(h, e.body)>>
          [] e.kind = "APP" -> <<"app", Untagged(h, e.lhs), Untagged(h, e.rhs)>>

\* C21: two expressions of the same shape and the same labels, which differ
\* at most in the tags of their symbols, have the same hash_expr value.
C21_HashIgnoresTags ==
    (call.fn = "hash_expr"
        /\ Untagged(Heap, call.body) = Untagged(Heap, call.arg))
    => call.hash[1] = call.hash[2]

\* what the code keeps: expressions of the same shape whose variable
\* occurrences carry the same tags have the same hash, whatever the tags
\* of their binders
RECURSIVE VarTags(_, _)
VarTags(h, expr) ==
    LET e == Slot(h, expr)
    IN  CASE e.kind = "VAR" -> <<e.sym.tag>>
          [] e.kind = "MAG" -> <<>>
          [] e.kind = "FUN" -> VarTags(h, e.body)
          [] e.kind = "APP" -> VarTags(h, e.lhs) \o VarTags(h, e.rhs)

C21_HashIgnoresBinderTags ==
    (call.fn = "hash_expr"
        /\ Untagged(Heap, call.body) = Untagged(Heap, call.arg)
        /\ VarTags(Heap, call.body) = VarTags(Heap, call.arg))
    => call.hash[1] = call.hash[2]

\* a variable and its renamed copy are hashed differently
C21_TaggedVarDiffers ==
    ~(/\ call.fn = "hash_expr"
      /\ Slot(Heap, call.body).kind = "VAR"
      /\ Slot(Heap, call.arg).kind = "VAR"
      /\ Slot(Heap, call.body).sym = Sym("x", 0)
      /\ Slot(Heap, call.arg).sym = Sym("x", 1)
      /\ call.hash = <<u32(177693), u32(177724)>>)

-----------------------------------------------------------------------------
(* Application is left-associative                                         *)

\* the structure of the expression a term stands for
RECURSIVE TermStructure(_)
TermStructure(t) ==
    CASE t[1] = "var" -> <<"var", symbol(t[2])>>
      [] t[1] = "mag" -> <<"mag", t[2]>>
      [] t[1] = "fun" -> <<"fun", symbol(t[2]), TermStructure(t[3])>>
      [] t[1] = "app" -> <<"app", TermStructure(t[2]), TermStructure(t[3])>>

\* App(...App(App(p1, p2), p3)..., pn)
RECURSIVE LeftNested(_, _)
LeftNested(ps, n) ==
    IF n = 1 THEN TermStructure(ps[1].term)
    ELSE <<"app", LeftNested(ps, n - 1), TermStructure(ps[n].term)>>

ABC == <<(<<1, 2, 3>>), 0>>

\* C22: parse_expr on the text of the primaries p1 p2 ... pn succeeds and
\* builds App(...App(App(p1, p2), p3)..., pn); on a b c it builds
\* App(App(a, b), c).
C22_LeftAssociative ==
    call.fn = "parse_text" =>
        /\ call.res = "true"
        /\ Structure(Heap, call.out) =
               LeftNested(PrimariesOf(call.input), Len(PrimariesOf(call.input)))
        /\ call.input = ABC =>
               Structure(Heap, call.out) =
                   <<"app", <<"app", <<"var", symbol("a")>>,
                                     <<"var", symbol("b")>> >>,
                            <<"var", symbol("c")>> >>

C22_Witness ==
    /\ call.fn = "parse_text"
    /\ call.input = ABC
    /\ call.res = "true"
    /\ Slot(Heap, call.out).kind = "APP"
    /\ Slot(Heap, Slot(Heap, call.out).lhs).kind = "APP"
    /\ Slot(Heap, Slot(Heap, call.out).rhs).sym = symbol("c")

-----------------------------------------------------------------------------
(* The interner                                                            *)

\* C23: over all the intern_label calls made so far, in whatever order and
\* number, two calls returned the same handle exactly when they were passed
\* equal strings, and the handle returned points to a copy of the string.
C23_InternCanonical ==
    call.fn = "intern_label" =>
        /\ \A i, j \in 1 .. Len(call.input) :
              (call.input[i].label = call.input[j].label)
                  <=> (call.input[i].handle = call.input[j].handle)
        /\ \A i \in 1 .. Len(call.input) :
              \E k \in 1 .. Len(labels) :
                 /\ labels[k].addr = call.input[i].handle
                 /\ labels[k].str = call.input[i].label

C23_Witness ==
    /\ call.fn = "intern_label"
    /\ Len(call.input) = 4
    /\ call.input[1].label = "hello"
    /\ call.input[2].label = "world"
    /\ call.input[3].label = "hello"
    /\ call.input[4].label = "world"
    /\ call.input[1].handle = call.input[3].handle
    /\ call.input[1].handle # call.input[2].handle
    /\ Len(labels) = 2

-----------------------------------------------------------------------------
(* The catalyst of a grid reaction                                         *)

\* the interaction of cell idx in direction dir has just been made and the
\* neighbour it met was occupied
Interacted(idx, dir) ==
    /\ call'.fn = "interact"
    /\ call'.body = idx
    /\ call'.arg = dir
    /\ CellAt(active_grid, idx).occupied
    /\ CellAt(active_grid, target_of(active_grid, idx, dir)).occupied

CatalystKept(idx) ==
    /\ CellAt(active_grid', idx).occupied
    /\ CellAt(active_grid', idx).atom = CellAt(active_grid, idx).atom

Cells(g) == 0 .. g.width * g.height - 1

C24_CatalystSurvivesOtherCell ==
    [][\A idx \in Cells(active_grid), dir \in 0 .. 3 :
          (Interacted(idx, dir) /\ target_of(active_grid, idx, dir) # idx)
              => CatalystKept(idx)]_vars

\* and when the wrap leads back to the cell itself and the reaction ends
\* Limit or Error, the cell is emptied
C24_SelfDivergenceEmpties ==
    [][\A idx \in Cells(active_grid), dir \in 0 .. 3 :
          (/\ Interacted(idx, dir)
           /\ target_of(active_grid, idx, dir) = idx
           /\ call'.res = "diverged")
              => ~CellAt(active_grid', idx).occupied]_vars

-----------------------------------------------------------------------------
(* Seeding                                                                 *)

\* every occupied cell is new: age 0 and generation 0
SeededCellsNew ==
    \A idx \in Cells(active_grid) :
        CellAt(active_grid, idx).occupied =>
            /\ CellAt(active_grid, idx).age = 0
            /\ CellAt(active_grid, idx).generation = 0

\* C25: grid_seed(g, count, depth) on an empty grid, 0 <= count <= W*H,
\* leaves exactly count occupied cells, each with age 0 and generation 0,
\* whatever the random draws.
C25_SeedPlacesCount ==
    call.fn = "grid_seed" =>
        /\ grid_population(active_grid) = call.arg
        /\ SeededCellsNew

\* what the code keeps: the cells it occupies are new and are as many as
\* it counted, never more than asked for, and exactly as many when at most
\* one is asked for
C25_SeedPlacesAtMostCount ==
    call.fn = "grid_seed" =>
        /\ grid_population(active_grid) = call.count
        /\ call.count <= call.arg
        /\ call.count >= (IF call.arg = 0 THEN 0 ELSE 1)
        /\ SeededCellsNew

\* a seeding that gave up: two asked for, one placed
C25_SeedGaveUp ==
    ~(call.fn = "grid_seed" /\ call.arg = 2 /\ call.count = 1)

-----------------------------------------------------------------------------
(* One step of reduction                                                   *)

\* the nameless form one step of leftmost-outermost reduction leaves
OneStep(t) == IF BetaRedexIn(t) THEN LeftmostOutermost(t) ELSE t

\* a successful eval1 call on expr has just returned
Stepped(expr) ==
    /\ call'.fn = "eval1"
    /\ call'.body = expr
    /\ call'.res = "true"

\* C26: a successful eval1 call contracts one redex, the leftmost-outermost
\* one, or none: the result of a call on an expression without Magic nodes
\* is the expression after one step of leftmost-outermost reduction; on an
\* App whose head is a Fun the result is the body with the operand
\* substituted, neither of them reduced first; and the result is the input
\* index exactly when no App of the expression has a Fun or a Magic as its
\* head.
C26_OneLeftmostStep ==
    [][\A expr \in 0 .. Len(GC.slots) - 1 :
          Stepped(expr) =>
              /\ ~HasMagic(Heap, expr) =>
                     Nameless(GCOf(GC'), call'.out, <<>>) =
                         OneStep(Nameless(Heap, expr, <<>>))
              /\ (/\ Slot(Heap, expr).kind = "APP"
                  /\ Slot(Heap, Slot(Heap, expr).lhs).kind = "FUN") =>
                     Nameless(GCOf(GC'), call'.out, <<>>) =
                         Open(Nameless(Heap, Slot(Heap, expr).lhs, <<>>)[2], 1,
                              Nameless(Heap, Slot(Heap, expr).rhs, <<>>))
              /\ (call'.out = expr) <=> ~HasRedex(Heap, expr)]_vars

\* the first step on x ((\x.x) y) ((\x.x) y): the redex in the left
\* operand is contracted, the right operand is left as it was, redex
\* included
C26_Witness ==
    /\ call.fn = "eval1"
    /\ call.res = "true"
    /\ call.count = 1
    /\ BeganAs(Heap, call.body, TestPrograms[14])
    /\ call.out # call.body
    /\ Slot(Heap, call.out).lhs # Slot(Heap, call.body).lhs
    /\ Slot(Heap, call.out).rhs = Slot(Heap, call.body).rhs
    /\ HasRedex(Heap, Slot(Heap, call.out).rhs)

-----------------------------------------------------------------------------
(* Evaluation leaves the existing expressions alone                        *)

\* every expression of the arena before the step is, after it, in the same
\* slots with the same contents, and is printed the same
ExpressionsKept ==
    \A i \in 0 .. Len(GC.slots) - 1 :
        Usable(Heap, i) =>
            /\ GC'.slots[i + 1] = GC.slots[i + 1]
            /\ expr_to_string(GCOf(GC'), i) = expr_to_string(Heap, i)

\* C27: eval_bounded, and eval1 and replace which it calls, only allocate:
\* every expression that exists before the call, whoever holds it and
\* whatever it shares with the expression being reduced, has the same
\* structure after it.
C27_EvaluationOnlyAllocates ==
    [][call'.fn = "eval_bounded" => ExpressionsKept]_vars

\* (\x.\y.x) a b reached its normal form: replace built a new \y.a next to
\* \y.x, which shares its slots with the start expression
C27_Witness ==
    /\ call.fn = "eval_bounded"
    /\ call.res = "EVAL_DONE"
    /\ BeganAs(Heap, call.body, TestPrograms[2])
    /\ Len(GC.slots) > Len(parse(EmptyHeap, TestPrograms[2]).h.slots)
    /\ expr_to_string(Heap, call.body) = "(\\x.y.x) a b"
    /\ expr_to_string(Heap, call.out) = "a"

\* the same for the holders of the programs: over a step of the gas or of
\* the grid, a binding, a pool entry or a cell that is kept is printed as
\* before
HoldersKept ==
    /\ \A i \in 1 .. Len(bindings) : \A j \in 1 .. Len(bindings') :
          (bindings'[j] = bindings[i]) =>
              Shown(GCOf(GC'), bindings[i].body) = Shown(Heap, bindings[i].body)
    /\ \A i \in 1 .. Len(gas_pool) :
          (i <= Len(gas_pool') /\ gas_pool'[i] = gas_pool[i]) =>
              Shown(GCOf(GC'), gas_pool[i]) = Shown(Heap, gas_pool[i])
    /\ \A i \in 1 .. Len(active_grid.cells) :
          (/\ i <= Len(active_grid'.cells)
           /\ active_grid.cells[i].occupied
           /\ active_grid'.cells[i].occupied
           /\ active_grid'.cells[i].atom = active_grid.cells[i].atom) =>
              Shown(GCOf(GC'), active_grid.cells[i].atom) =
                  Shown(Heap, active_grid.cells[i].atom)

C27_HoldersKept == [][aborted' = "" => HoldersKept]_vars
-----------------------------------------------------------------------------
(* C28: the cancel flag only affects the operation during which it       *)
(* arrives.  A gas run during which no Ctrl-C is delivered executes all   *)
(* the iterations asked for, also when the flag was set at the prompt     *)
(* before the :gas command started.  Under SpecPrompt no Ctrl-C is ever   *)
(* delivered while a command runs, so every gas run that ends has done    *)
(* all its iterations.                                                     *)
C28_GasRunsAllIterations ==
    [][(gas.running /\ ~gas'.running /\ aborted' = "")
          => gas.it = gas.iterations]_vars

\* evaluation and grid runs do clear the flag when they start, so a flag
\* left from the prompt never ends them
C28_EvalAndGridClearFlag ==
    [][((call.fn = "none" /\ call'.fn \in {"eval", "grid"}) => ctrl_c' = 0)
       /\ ((EvalRunning \/ GridRunning) => ctrl_c = 0)]_vars

\* the gas loop starts with the flag as the prompt left it
C28_GasStartsWithStaleFlag ==
    [][(~gas.running /\ gas'.running) => ctrl_c' = ctrl_c]_vars
-----------------------------------------------------------------------------
(* C29: between grid steps every occupied cell has 0 <= age <= MAX_AGE:   *)
(* seeding, cosmic-ray spawning, movement, catalysis and aging never      *)
(* leave an occupied cell whose age exceeds MAX_AGE.                      *)
C29_AgeBounded ==
    \A i \in 1 .. Len(active_grid.cells) :
       active_grid.cells[i].occupied =>
          /\ active_grid.cells[i].age >= 0
          /\ active_grid.cells[i].age <= MAX_AGE

\* a grid that has seen a movement, a reaction, a death of age and a cosmic
\* spawn, and holds a cell in the last step of its life
C29_Witness ==
    /\ call.fn = "grid_step"
    /\ active_grid.movements > 0
    /\ active_grid.reactions_success > 0
    /\ active_grid.deaths_age > 0
    /\ active_grid.cosmic_spawns > 0
    /\ \E i \in 1 .. Len(active_grid.cells) :
          /\ active_grid.cells[i].occupied
          /\ active_grid.cells[i].age = MAX_AGE
-----------------------------------------------------------------------------
(* C30: within one grid_step every organism is aged at most once: for     *)
(* each organism that is alive before and after the step and was not      *)
(* replaced by a reaction, its age at the end of the step is at most its  *)
(* age at the start plus 1, also when it moved to another cell during     *)
(* the step.  On a grid that holds one organism before and after a step   *)
(* without reaction, death or spawn, that organism is the same one.       *)
QuietStep ==
    /\ GridStepDone
    /\ active_grid'.reactions_success = active_grid.reactions_success
    /\ active_grid'.reactions_diverged = active_grid.reactions_diverged
    /\ active_grid'.deaths_age = active_grid.deaths_age
    /\ active_grid'.cosmic_spawns = active_grid.cosmic_spawns

\* the ages of the occupied cells of g
Ages(g) == {g.cells[i].age : i \in {j \in 1 .. Len(g.cells) :
                                       g.cells[j].occupied}}

LoneOrganismStep ==
    /\ QuietStep
    /\ grid_population(active_grid) = 1
    /\ grid_population(active_grid') = 1

C30_AgedAtMostOnce ==
    [][LoneOrganismStep =>
         \A a \in Ages(active_grid), b \in Ages(active_grid') : b <= a + 1]_vars

\* an organism that did not move is aged exactly once
C30_UnmovedAgedOnce ==
    [][(LoneOrganismStep /\ active_grid'.movements = active_grid.movements) =>
         \A a \in Ages(active_grid), b \in Ages(active_grid') : b = a + 1]_vars

\* an organism is aged once each time a cell that holds it is processed:
\* once more than the moves it made in the step, and at most once per cell
C30_AgedOncePerVisit ==
    [][LoneOrganismStep =>
         \A a \in Ages(active_grid), b \in Ages(active_grid') :
            /\ b >= a + 1
            /\ b <= a + 1 + (active_grid'.movements - active_grid.movements)
            /\ b <= a + Len(active_grid.cells)]_vars

====
